---- MODULE Spec2Model ----
(***************************************************************************)
(* Verification model of remip-example: the chat-history merge functions   *)
(* (chat_history.py), the worker/mentor loop agent (agent.py), the         *)
(* StreamWorker of app.py, the AgentService of services.py and the         *)
(* AsyncIteratorBridge of app2.py.                                         *)
(*                                                                         *)
(* A text is a sequence of one-character strings.  The content of an event *)
(* is its sequence of parts; a part carries one character of text, or ""   *)
(* when it has no text (a tool call, or a text of None).                   *)
(***************************************************************************)
EXTENDS Integers, Sequences, FiniteSets, TLC

\* ---------------------------------------------------------------- bounds
MaxEvents == 3
MaxCarry == 3
MaxIter == 2
MaxTools == 2
MaxSessions == 2
MaxTaskSessions == 1
MaxMessages == 2
MaxRunnerEvents == 2
MaxStreams == 2
MaxRuns == 2
MaxItems == 2
MaxSwStreams == 2
MaxSwEvents == 2
MaxTrack == 2
MaxOver == 3
MaxParts == 3
MaxLive == 4
MaxSpawns == 3

\* ------------------------------------------------------------- variables
VARIABLES
    events,      \* chat_history: the events handed to events_to_messages
    history,     \* chat_history: the list events_to_messages returned
    carry,       \* chat_history: the events handed to build_committed_events_from_partials
    committed,   \* chat_history: the list build_committed_events_from_partials returned
    agent,       \* agent.py: the agent build_agent returned
    la_pc,       \* loop agent: "unbuilt", "ready", "sub_start", "sub_running", "done"
    la_idx,      \* loop agent: index of the current sub-agent in sub_agents
    times_looped,\* loop agent: iterations completed in this invocation
    actions,     \* the event actions of the running sub-agent (escalate)
    tools_used,  \* session state "tools_used"
    la_trace,    \* the sub-agent runs of this invocation, in order
    la_agent_mode, \* the is_agent_mode the agent was built with: "unset", "on", "off"
    sessions,    \* AgentService._sessions: user id -> its TalkSessions, in insertion order
    next_uuid,   \* the session id the next uuid4() call returns
    command_q,   \* AgentService._command_q
    output_queues,           \* AgentService._output_queues
    session_message_queues,  \* AgentService._session_message_queues
    active_tasks,            \* AgentService._active_tasks (its keys)
    task_is_running,         \* AgentService._task_is_running
    is_running,  \* AgentService._is_running
    adk_sessions,\* the sessions session_service holds
    producer_pc, \* _producer_loop: "loop" or "stopped"
    task,        \* the session tasks: position, message in hand, events put sofar
    streams,     \* the stream_new_responses calls made, each with what it yielded
    api_result,  \* the outcome of the last call of a method of the service
    svc_log,     \* the create_talk_session calls made: user and returned id, in order
    put_log,     \* per session, for each message put: the message whose response was
                 \* being streamed at that time (0: none), the number of its events
                 \* put so far, and the number of stream calls made so far
    br_stop,     \* AsyncIteratorBridge._stop (is set)
    br_thread,   \* AsyncIteratorBridge.thread: the run whose thread it is, 0 for None
    br_q,        \* AsyncIteratorBridge.q: the run whose queue it is, 0 for None
    br_factory,  \* AsyncIteratorBridge._factory: the run whose factory it is, 0 for None
    br_aiter,    \* AsyncIteratorBridge._aiter: the thread whose iterator it is, 0 for None
    br_queues,   \* the Queue objects created by run(), by run
    br_prod,     \* the producer threads (_runner/_produce), by run
    br_iter,     \* the async iterators, by the thread that created them
    br_gen,      \* the generators returned by run(), by run
    br_runs,     \* the number of run() calls made
    sw_current_stream_id, \* StreamWorker._current_stream_id
    sw_interrupt_flag,    \* StreamWorker._interrupt_flag
    sw_current_task,      \* StreamWorker._current_task: the stream of the task, 0 for None
    sw_handoff_timeout,   \* StreamWorker._handoff_timeout: "unset" before __init__,
                          \* then "none" or "seconds"
    sw_loop,     \* the _start callbacks scheduled on the worker's loop
    sw_task,     \* the _stream_task tasks, by stream id
    sw_out_q,    \* the items put on StreamWorker.out_q, by stream id, in put order
    sw_appended, \* the events _commit_carry_events appended to the session
    sw_order,    \* out_q as a whole: the stream ids of the items put, in put order
    tt_state,    \* a state mapping given to the tool callbacks: whether it has the
                 \* key tools_used, and the list under it
    tt_log,      \* the arguments of the track_tool_calling calls made on tt_state
                 \* since it was last cleared
    pe_event,    \* the event last given to process_event
    pe_result,   \* what process_event returned for it
    ss,          \* st.session_state of app.py's page, as far as the stream goes
    ui_drained,  \* the number of items the page has taken from out_q
    ui_triggered, \* the stream id trigger_prompt last made the active one
    ui_since,    \* the chunk payloads handled since the last final_chunk
    ui_finals,   \* the final_chunk payloads handled since the last reset
    hs_cache,    \* st.cache_resource: the ports ensure_http_server has a value for
    hs_procs,    \* the server processes spawned so far, in order
    hs_exiting,  \* the Python process is exiting: the atexit handlers have run
    hs_result    \* what the last call of ensure_http_server did

histVars == <<events, history>>
commitVars == <<carry, committed>>
loopVars == <<agent, la_pc, la_idx, times_looped, actions, tools_used, la_trace,
              la_agent_mode>>
svcVars == <<sessions, next_uuid, command_q, output_queues, session_message_queues,
             active_tasks, task_is_running, is_running, adk_sessions, producer_pc,
             task, streams, api_result, svc_log, put_log>>
brVars == <<br_stop, br_thread, br_q, br_factory, br_aiter, br_queues, br_prod,
            br_iter, br_gen, br_runs>>
vars == <<events, history, carry, committed,
          agent, la_pc, la_idx, times_looped, actions, tools_used, la_trace,
          la_agent_mode,
          sessions, next_uuid, command_q, output_queues, session_message_queues,
          active_tasks, task_is_running, is_running, adk_sessions, producer_pc,
          task, streams, api_result, svc_log, put_log,
          br_stop, br_thread, br_q, br_factory, br_aiter, br_queues, br_prod,
          br_iter, br_gen, br_runs,
          sw_current_stream_id, sw_interrupt_flag, sw_current_task,
          sw_handoff_timeout, sw_loop, sw_task, sw_out_q, sw_appended, sw_order,
          tt_state, tt_log, pe_event, pe_result,
          ss, ui_drained, ui_triggered, ui_since, ui_finals,
          hs_cache, hs_procs, hs_exiting, hs_result>>

swVars == <<sw_current_stream_id, sw_interrupt_flag, sw_current_task,
            sw_handoff_timeout, sw_loop, sw_task, sw_out_q, sw_appended, sw_order>>
ttVars == <<tt_state, tt_log>>
peVars == <<pe_event, pe_result>>
uiVars == <<ss, ui_drained, ui_triggered, ui_since, ui_finals>>
hsVars == <<hs_cache, hs_procs, hs_exiting, hs_result>>

NotHist == <<commitVars, loopVars, svcVars, brVars, swVars, ttVars, peVars, uiVars, hsVars>>
NotCommit == <<histVars, loopVars, svcVars, brVars, swVars, ttVars, peVars, uiVars, hsVars>>
NotLoop == <<histVars, commitVars, svcVars, brVars, swVars, ttVars, peVars, uiVars, hsVars>>
NotSvc == <<histVars, commitVars, loopVars, brVars, swVars, ttVars, peVars, uiVars, hsVars>>
NotBridge == <<histVars, commitVars, loopVars, svcVars, swVars, ttVars, peVars, uiVars, hsVars>>
NotWorker == <<histVars, commitVars, loopVars, svcVars, brVars, ttVars, peVars, uiVars, hsVars>>
NotEvent == <<histVars, commitVars, loopVars, svcVars, brVars, swVars, ttVars, uiVars, hsVars>>
NotUi == <<histVars, commitVars, loopVars, svcVars, brVars, swVars, ttVars, peVars, hsVars>>
NotTrack == <<histVars, commitVars, loopVars, svcVars, brVars, swVars, peVars, uiVars, hsVars>>
NotServer == <<histVars, commitVars, loopVars, svcVars, brVars, swVars, ttVars, peVars, uiVars>>

\* ---------------------------------------------------- chat_history.py
NoneId == "<None>"
Whitespace == {" "}

RECURSIVE LStrip(_)
LStrip(s) ==
    IF s # <<>> /\ Head(s) \in Whitespace THEN LStrip(Tail(s)) ELSE s

RECURSIVE RStrip(_)
RStrip(s) ==
    IF s # <<>> /\ s[Len(s)] \in Whitespace
    THEN RStrip(SubSeq(s, 1, Len(s) - 1))
    ELSE s

Strip(s) == RStrip(LStrip(s))

\* "".join(part.text for part in parts if part.text)
event_text(e) == SelectSeq(e.parts, LAMBDA p : p # "")

\* position of key k in the ordered dict d (a sequence of [key, text]), 0 if absent
RECURSIVE KeyPos(_, _)
KeyPos(d, k) ==
    IF d = <<>> THEN 0
    ELSE IF d[Len(d)].key = k THEN Len(d)
    ELSE KeyPos(SubSeq(d, 1, Len(d) - 1), k)

HasKey(d, k) == KeyPos(d, k) # 0

RemoveAt(d, i) == SubSeq(d, 1, i - 1) \o SubSeq(d, i + 1, Len(d))

NoneKey(n) == <<"__none__:0", "__none__:1", "__none__:2", "__none__:3", "__none__:4">>[n + 1]

\* mutant: the new text is put in front of the accumulated text
AccumulatePrepend(old, text) == text \o old

\* partials[key]["text"] += text
Accumulate(old, text) == old \o text

\* combined = (accumulated["text"] + text).strip()
Combine(accumulated, text) == Strip(accumulated \o text)

\* mutant: the flush loop drops the remaining partials
FlushTextDropped(text) == <<>>

\* text = data["text"].strip() of the flush loop
FlushText(text) == Strip(text)

\* history entries are the (role, text) tuples of the code; src is an auxiliary
\* tag naming the dict key (invocation) the entry was built from
Msg(role, text, src) == [role |-> role, text |-> text, src |-> src]

EtmStart ==
    [history |-> <<>>, partials |-> <<>>, none_key_counter |-> 0,
     last_none_key |-> NoneId, raised |-> FALSE]

\* one pass of the body of the for loop of events_to_messages
EtmStep(st, e) ==
    LET text == event_text(e) IN
    IF st.raised \/ text = <<>> THEN st
    ELSE IF e.role = "user"
    THEN [st EXCEPT !.history = Append(@, Msg("user", text, "user")),
                    !.last_none_key = NoneId]
    ELSE
      LET isNone == e.inv = NoneId
          fresh == isNone /\ (st.last_none_key = NoneId
                              \/ ~HasKey(st.partials, st.last_none_key))
          counter == IF fresh THEN st.none_key_counter + 1 ELSE st.none_key_counter
          key == IF isNone
                 THEN (IF st.last_none_key # NoneId THEN st.last_none_key
                       ELSE NoneKey(counter - 1))
                 ELSE e.inv
          partials1 ==
              IF fresh
              THEN Append(st.partials, [key |-> NoneKey(st.none_key_counter), text |-> <<>>])
              ELSE IF ~isNone /\ ~HasKey(st.partials, key)
              THEN Append(st.partials, [key |-> key, text |-> <<>>])
              ELSE st.partials
          last == IF isNone THEN key ELSE NoneId
          pos == KeyPos(partials1, key)
      IN
      IF e.partial
      THEN IF pos = 0
           THEN [st EXCEPT !.raised = TRUE, !.partials = partials1,
                           !.none_key_counter = counter, !.last_none_key = last]
           ELSE [st EXCEPT !.partials = [partials1 EXCEPT ![pos].text = Accumulate(@, text)],
                           !.none_key_counter = counter, !.last_none_key = last]
      ELSE
        LET accumulated == IF pos = 0 THEN <<>> ELSE partials1[pos].text
            combined == Combine(accumulated, text)
            partials2 == IF pos = 0 THEN partials1 ELSE RemoveAt(partials1, pos)
        IN [st EXCEPT !.partials = partials2,
                      !.none_key_counter = counter, !.last_none_key = last,
                      !.history = IF combined # <<>>
                                  THEN Append(@, Msg("assistant", combined, key))
                                  ELSE @]

RECURSIVE EtmFold(_, _)
EtmFold(st, evs) ==
    IF evs = <<>> THEN st ELSE EtmFold(EtmStep(st, Head(evs)), Tail(evs))

\* the flush of the remaining partials after the loop
RECURSIVE EtmFlush(_, _)
EtmFlush(hist, partials) ==
    IF partials = <<>> THEN hist
    ELSE LET text == FlushText(Head(partials).text) IN
         EtmFlush(IF text # <<>>
                  THEN Append(hist, Msg("assistant", text, Head(partials).key))
                  ELSE hist,
                  Tail(partials))

\* events_to_messages: the returned list; raised when the call ends in a KeyError
events_to_messages(evs) ==
    LET st == EtmFold(EtmStart, evs) IN
    IF st.raised THEN [raised |-> TRUE, messages |-> <<>>]
    ELSE [raised |-> FALSE, messages |-> EtmFlush(st.history, st.partials)]

\* mutant: only the group added last is found, so interleaved invocations split
GroupPosLastOnly(grouped, inv) ==
    IF grouped # <<>> /\ grouped[Len(grouped)].invocation_id = inv
    THEN Len(grouped) ELSE 0

\* position of the group of invocation id inv in grouped, 0 if absent (indexed.get)
RECURSIVE GroupPos(_, _)
GroupPos(grouped, inv) ==
    IF grouped = <<>> THEN 0
    ELSE IF grouped[Len(grouped)].invocation_id = inv THEN Len(grouped)
    ELSE GroupPos(SubSeq(grouped, 1, Len(grouped) - 1), inv)

Truthy(id) == id # NoneId /\ id # ""

BcStart == [grouped |-> <<>>, current_none_group |-> 0]

NewGroup(inv, e) ==
    [invocation_id |-> inv, events |-> <<>>,
     author |-> IF e.author # "" THEN e.author ELSE "assistant"]

\* one pass of the grouping loop of build_committed_events_from_partials
BcStep(st, e) ==
    LET known == IF Truthy(e.inv) THEN GroupPos(st.grouped, e.inv)
                 ELSE st.current_none_group
        grouped1 == IF known # 0 THEN st.grouped
                    ELSE Append(st.grouped,
                                NewGroup(IF Truthy(e.inv) THEN e.inv ELSE NoneId, e))
        g == IF known # 0 THEN known ELSE Len(grouped1)
    IN [grouped |-> [grouped1 EXCEPT ![g].events = Append(@, e)],
        current_none_group |-> IF Truthy(e.inv) THEN 0 ELSE g]

RECURSIVE BcFold(_, _)
BcFold(st, evs) ==
    IF evs = <<>> THEN st ELSE BcFold(BcStep(st, Head(evs)), Tail(evs))

RECURSIVE JoinTexts(_)
JoinTexts(evs) ==
    IF evs = <<>> THEN <<>> ELSE event_text(Head(evs)) \o JoinTexts(Tail(evs))

\* merged_text = "".join(...).strip()
MergedText(evs) == Strip(JoinTexts(evs))

\* the second loop: one finalized Event per group whose merged text is not empty.
\* An Event built without invocationId has the invocation id "".
RECURSIVE BcCommit(_)
BcCommit(grouped) ==
    IF grouped = <<>> THEN <<>>
    ELSE LET group == Head(grouped)
             merged_text == MergedText(group.events)
         IN IF merged_text = <<>> THEN BcCommit(Tail(grouped))
            ELSE << [role |-> "model", parts |-> merged_text,
                     author |-> group.author, partial |-> FALSE,
                     inv |-> IF Truthy(group.invocation_id)
                             THEN group.invocation_id ELSE ""] >>
                 \o BcCommit(Tail(grouped))

build_committed_events_from_partials(partials) ==
    BcCommit(BcFold(BcStart, partials).grouped)

\* ------------------------------------------------------------ agent.py
\* The loop is google.adk's LoopAgent as build_agent configures it: while
\* times_looped < max_iterations it runs the sub-agents in list order, and it
\* returns after a sub-agent one of whose events had actions.escalate set.
NoAgent == [kind |-> "none", name |-> "", sub_agents |-> <<>>, max_iterations |-> 0]

\* mutant: the mentor is listed before the worker
SubAgentsMentorFirst == <<"mentor_agent", "remip_agent">>

\* sub_agents=[remip_agent, mentor_agent]
SubAgents == <<"remip_agent", "mentor_agent">>

\* mutant: the loop is built whatever the mode
BuildLoopAlways(is_agent_mode, max_iterations) ==
    [kind |-> "LoopAgent", name |-> "orchestrator", sub_agents |-> SubAgents,
     max_iterations |-> max_iterations]

build_agent(is_agent_mode, max_iterations) ==
    IF ~is_agent_mode
    THEN [kind |-> "LlmAgent", name |-> "remip_agent", sub_agents |-> <<>>,
          max_iterations |-> 0]
    ELSE [kind |-> "LoopAgent", name |-> "orchestrator", sub_agents |-> SubAgents,
          max_iterations |-> max_iterations]

NoActions == [escalate |-> FALSE]

\* google.adk.tools.exit_loop
exit_loop(tool_actions) == [tool_actions EXCEPT !.escalate = TRUE]

\* mutant: ask returns without signalling the loop
AskWithoutExit(tool_actions) == tool_actions

\* def ask(tool_context): return exit_loop(tool_context)
ask(tool_actions) == exit_loop(tool_actions)

\* tools=[exit_loop, ask] of the mentor
MentorTools == {"exit_loop", "ask"}
\* the tools of the MCP toolset the worker calls
WorkerTools == {"define_model", "solve_model"}

\* the sub-agents a run of the agent goes through
RunList(a) == IF a.kind = "LoopAgent" THEN a.sub_agents ELSE << a.name >>
Current == RunList(agent)[la_idx]

\* A state mapping, as far as its key tools_used goes
NoToolsUsed == [present |-> FALSE, list |-> <<>>]
HasToolsUsed(list) == [present |-> TRUE, list |-> list]

\* mutant: the callback leaves the list as it is
ClearKeepsTrack(state) == state

\* callback_context.state["tools_used"] = []
clear_tool_calling_track(state) == HasToolsUsed(<<>>)

\* An argument value is a string (a sequence of characters) or an integer.
StrValue(str) == [t |-> "str", s |-> str, n |-> 0]
IntValue(n) == [t |-> "int", s |-> <<>>, n |-> n]

DigitChar(d) == <<"0", "1", "2", "3", "4", "5", "6", "7", "8", "9">>[d + 1]
RECURSIVE Digits(_)
Digits(n) == IF n < 10 THEN << DigitChar(n) >>
             ELSE Digits(n \div 10) \o << DigitChar(n % 10) >>

\* str(v)
StrOf(v) == IF v.t = "str" THEN v.s ELSE Digits(v.n)

\* the length above which an argument's string form is cut
ArgLimit == 128

\* mutant: a value of exactly 128 characters is cut too
TruncateFromLimit(value) ==
    IF Len(value) >= ArgLimit THEN SubSeq(value, 1, ArgLimit) \o <<".", ".", ".">>
    ELSE value

\* value[:128] + "..." if len(value) > 128 else value
Truncate(value) ==
    IF Len(value) > ArgLimit THEN SubSeq(value, 1, ArgLimit) \o <<".", ".", ".">>
    ELSE value

\* args is a dict, kept as the sequence of its [k, v] items in insertion order
TruncatedArgs(args) == [i \in 1..Len(args) |-> [k |-> args[i].k, v |-> Truncate(StrOf(args[i].v))]]

\* A tool response is None, a Mapping or another object; isError is the value
\* under "isError" (key or attribute) when has_isError, and error tells whether
\* "error" or "error_message" holds a truthy value.
Response(kind, has_isError, isError, error) ==
    [kind |-> kind, has_isError |-> has_isError, isError |-> isError, error |-> error]

\* the success flag agent.py computes
Success(tool_response) ==
    IF tool_response.kind = "none" THEN TRUE
    ELSE IF tool_response.kind = "mapping"
         THEN IF tool_response.has_isError THEN ~tool_response.isError
              ELSE ~tool_response.error
         ELSE ~(tool_response.has_isError /\ tool_response.isError)

\* the success flag app.py computes: not getattr(tool_response, "isError", False),
\* and a Mapping has no such attribute
AppSuccess(tool_response) ==
    ~(tool_response.kind = "object" /\ tool_response.has_isError /\ tool_response.isError)

ToolRecord(agent_name, tool, args, success) ==
    [agent |-> agent_name, tool |-> tool, args |-> TruncatedArgs(args), success |-> success]

\* mutant: the record is put at the front of the list
TrackPrepend(state, agent_name, tool, args, tool_response) ==
    HasToolsUsed(<< ToolRecord(agent_name, tool, args, Success(tool_response)) >>
                 \o state.list)

\* agent.py's track_tool_calling: the list is created when the state has none,
\* and one record is appended
track_tool_calling(state, agent_name, tool, args, tool_response) ==
    HasToolsUsed(Append(IF state.present THEN state.list ELSE <<>>,
                        ToolRecord(agent_name, tool, args, Success(tool_response))))

\* app.py's track_tool_calling
app_track_tool_calling(state, agent_name, tool, args, tool_response) ==
    HasToolsUsed(Append(IF state.present THEN state.list ELSE <<>>,
                        ToolRecord(agent_name, tool, args, AppSuccess(tool_response))))

\* the arguments of a call of a tool callback; app tells app.py's from agent.py's
Call(app, agent_name, tool, args, tool_response) ==
    [app |-> app, agent |-> agent_name, tool |-> tool, args |-> args,
     response |-> tool_response]

BuildAgent(is_agent_mode, max_iterations) ==
    /\ la_pc = "unbuilt"
    /\ agent' = build_agent(is_agent_mode, max_iterations)
    /\ la_pc' = "ready"
    /\ la_agent_mode' = IF is_agent_mode THEN "on" ELSE "off"
    /\ UNCHANGED <<la_idx, times_looped, actions, tools_used, la_trace>>
    /\ UNCHANGED NotLoop

\* runner.run_async starts an invocation of the agent
RunAgent ==
    /\ la_pc = "ready"
    /\ la_pc' = "sub_start"
    /\ la_idx' = 1
    /\ times_looped' = 0
    /\ la_trace' = <<>>
    /\ UNCHANGED <<agent, la_agent_mode, actions, tools_used>>
    /\ UNCHANGED NotLoop

\* a sub-agent starts: before_agent_callback of remip_agent clears the track.
\* The trace keeps the calls of a run for the iteration the run is in.
SubAgentStart ==
    /\ la_pc = "sub_start"
    /\ la_pc' = "sub_running"
    /\ actions' = NoActions
    /\ tools_used' = IF Current = "remip_agent"
                     THEN clear_tool_calling_track(HasToolsUsed(tools_used)).list
                     ELSE tools_used
    /\ la_trace' = Append(IF Current = "remip_agent"
                           THEN [k \in 1..Len(la_trace) |->
                                    [la_trace[k] EXCEPT !.calls = << >>]]
                           ELSE la_trace,
                           [agent |-> Current, iteration |-> times_looped + 1,
                            called |-> {}, calls |-> << >>])
    /\ UNCHANGED <<agent, la_agent_mode, la_idx, times_looped>>
    /\ UNCHANGED NotLoop

\* the worker calls a tool of the MCP toolset; after_tool_callback tracks it
WorkerToolCall(tool, args, tool_response) ==
    /\ la_pc = "sub_running"
    /\ Current = "remip_agent"
    /\ Len(tools_used) < MaxTools
    /\ tools_used' = track_tool_calling(HasToolsUsed(tools_used), Current, tool, args,
                                        tool_response).list
    /\ la_trace' = [la_trace EXCEPT
                       ![Len(la_trace)].called = @ \cup {tool},
                       ![Len(la_trace)].calls =
                           Append(@, Call(FALSE, Current, tool, args, tool_response))]
    /\ UNCHANGED <<agent, la_agent_mode, la_pc, la_idx, times_looped, actions>>
    /\ UNCHANGED NotLoop

\* the mentor calls one of its tools
MentorToolCall(tool) ==
    /\ la_pc = "sub_running"
    /\ Current = "mentor_agent"
    /\ tool \notin la_trace[Len(la_trace)].called
    /\ actions' = IF tool = "ask" THEN ask(actions) ELSE exit_loop(actions)
    /\ la_trace' = [la_trace EXCEPT ![Len(la_trace)].called = @ \cup {tool}]
    /\ UNCHANGED <<agent, la_agent_mode, la_pc, la_idx, times_looped, tools_used>>
    /\ UNCHANGED NotLoop

\* the sub-agent's run ends; the loop exits, goes to the next sub-agent, or
\* counts the iteration and tests the cap
SubAgentFinish ==
    /\ la_pc = "sub_running"
    /\ IF agent.kind = "LoopAgent" /\ ~actions.escalate
       THEN IF la_idx < Len(agent.sub_agents)
            THEN /\ la_idx' = la_idx + 1
                 /\ la_pc' = "sub_start"
                 /\ UNCHANGED times_looped
            ELSE /\ times_looped' = times_looped + 1
                 /\ la_idx' = 1
                 /\ la_pc' = IF times_looped' < agent.max_iterations
                             THEN "sub_start" ELSE "done"
       ELSE /\ la_pc' = "done"
            /\ UNCHANGED <<la_idx, times_looped>>
    /\ UNCHANGED <<agent, la_agent_mode, actions, tools_used, la_trace>>
    /\ UNCHANGED NotLoop

\* ---------------------------------------------------------- services.py
Users == {"user_a", "user_b"}
SENTINEL == [msg |-> 0, k |-> 0]
NoResult == [op |-> "none", user |-> "", sid |-> 0, raised |-> "", value |-> <<>>]

TalkSession(id, user_id, agent_mode) ==
    [id |-> id, user_id |-> user_id, agent_mode |-> agent_mode]

SessionIds(seq) == {seq[k].id : k \in 1..Len(seq)}
RECURSIVE IdList(_)
IdList(seq) == IF seq = <<>> THEN <<>> ELSE << Head(seq).id >> \o IdList(Tail(seq))

\* mutant: the session is looked up under every user
get_talk_session_any_user(user_id, session_id) ==
    LET found == {ts \in UNION {{sessions[u][k] : k \in 1..Len(sessions[u])}
                                : u \in DOMAIN sessions} : ts.id = session_id}
    IN IF found = {} THEN [raised |-> "KeyError", value |-> <<>>]
       ELSE [raised |-> "", value |-> << CHOOSE ts \in found : TRUE >>]

\* return self._sessions[user_id][session_id]
get_talk_session(user_id, session_id) ==
    IF user_id \notin DOMAIN sessions
       \/ session_id \notin SessionIds(sessions[user_id])
    THEN [raised |-> "KeyError", value |-> <<>>]
    ELSE [raised |-> "",
          value |-> << CHOOSE ts \in {sessions[user_id][k] : k \in 1..Len(sessions[user_id])}
                          : ts.id = session_id >>]

\* return list(self._sessions.get(user_id, {}).keys())
list_talk_sessions(user_id) ==
    IF user_id \in DOMAIN sessions THEN IdList(sessions[user_id]) ELSE <<>>

\* self._task_is_running.get(session_id, False)
is_task_running(session_id) ==
    IF session_id \in DOMAIN task_is_running THEN task_is_running[session_id] ELSE FALSE

SetKey(f, k, v) == IF k \in DOMAIN f THEN [f EXCEPT ![k] = v] ELSE f @@ (k :> v)

\* a session task; lens (the numbers of events of the messages it has completed)
\* and starts (how often a task was created for the session) are history
NoTask == [pc |-> "none", msg |-> 0, len |-> 0, put |-> 0, bound |-> FALSE,
           lens |-> <<>>, starts |-> 0]

\* mutant: the task is started before the ADK session is created
SessionCommandsTaskFirst(session_id) ==
    << [command |-> "START_SESSION_TASK", session_id |-> session_id],
       [command |-> "create_adk_session", session_id |-> session_id] >>

\* the two commands create_talk_session puts on the command queue
SessionCommands(session_id) ==
    << [command |-> "create_adk_session", session_id |-> session_id],
       [command |-> "START_SESSION_TASK", session_id |-> session_id] >>

CreateTalkSession(user_id, is_agent_mode) ==
    /\ next_uuid <= MaxSessions
    /\ LET session_id == next_uuid
           ts == TalkSession(session_id, user_id, is_agent_mode)
       IN /\ sessions' = IF user_id \in DOMAIN sessions
                         THEN [sessions EXCEPT ![user_id] = Append(@, ts)]
                         ELSE sessions @@ (user_id :> << ts >>)
          /\ output_queues' = SetKey(output_queues, session_id, <<>>)
          /\ session_message_queues' = SetKey(session_message_queues, session_id, <<>>)
          /\ command_q' = command_q \o SessionCommands(session_id)
          /\ task' = SetKey(task, session_id, NoTask)
          /\ api_result' = [op |-> "create_talk_session", user |-> user_id,
                            sid |-> session_id, raised |-> "", value |-> <<session_id>>]
          /\ svc_log' = Append(svc_log, [user |-> user_id, sid |-> session_id])
          /\ put_log' = SetKey(put_log, session_id, <<>>)
    /\ next_uuid' = next_uuid + 1
    /\ UNCHANGED <<active_tasks, task_is_running, is_running, adk_sessions,
                   producer_pc, streams>>
    /\ UNCHANGED NotSvc

GetTalkSession(user_id, session_id) ==
    /\ api_result' = [op |-> "get_talk_session", user |-> user_id, sid |-> session_id,
                      raised |-> get_talk_session(user_id, session_id).raised,
                      value |-> get_talk_session(user_id, session_id).value]
    /\ UNCHANGED <<sessions, next_uuid, command_q, output_queues, session_message_queues,
                   active_tasks, task_is_running, is_running, adk_sessions, producer_pc,
                   task, streams, svc_log, put_log>>
    /\ UNCHANGED NotSvc

ListTalkSessions(user_id) ==
    /\ api_result' = [op |-> "list_talk_sessions", user |-> user_id, sid |-> 0,
                      raised |-> "", value |-> list_talk_sessions(user_id)]
    /\ UNCHANGED <<sessions, next_uuid, command_q, output_queues, session_message_queues,
                   active_tasks, task_is_running, is_running, adk_sessions, producer_pc,
                   task, streams, svc_log, put_log>>
    /\ UNCHANGED NotSvc

\* service.add_message(...): add_message is defined inside list_talk_sessions,
\* after its return statement, so the class has no such attribute and the call
\* raises AttributeError before anything is done
AddMessage(user_id, session_id, message_content) ==
    /\ api_result' = [op |-> "add_message", user |-> user_id, sid |-> session_id,
                      raised |-> "AttributeError", value |-> <<>>]
    /\ UNCHANGED <<sessions, next_uuid, command_q, output_queues, session_message_queues,
                   active_tasks, task_is_running, is_running, adk_sessions, producer_pc,
                   task, streams, svc_log, put_log>>
    /\ UNCHANGED NotSvc

MessagesPut(session_id) == Len(put_log[session_id])

\* the statements of the nested add_message, which no method of the class
\* reaches: a caller that sets the flag and puts the content on the session's
\* message queue itself
PutUserContent(session_id) ==
    /\ session_id \in DOMAIN session_message_queues
    /\ MessagesPut(session_id) < MaxMessages
    /\ LET m == MessagesPut(session_id) + 1 IN
       /\ task_is_running' = SetKey(task_is_running, session_id, TRUE)
       /\ session_message_queues' =
              [session_message_queues EXCEPT ![session_id] = Append(@, m)]
       /\ put_log' = [put_log EXCEPT ![session_id] =
              Append(@, [during |-> IF task[session_id].pc = "streaming"
                                    THEN task[session_id].msg ELSE 0,
                         put |-> task[session_id].put,
                         streams |-> Len(streams)])]
    /\ UNCHANGED <<sessions, next_uuid, command_q, output_queues, active_tasks,
                   is_running, adk_sessions, producer_pc, task, streams, api_result,
                   svc_log>>
    /\ UNCHANGED NotSvc

\* stop()
Stop ==
    /\ is_running
    /\ is_running' = FALSE
    /\ command_q' = Append(command_q, [command |-> "TERMINATE", session_id |-> 0])
    /\ UNCHANGED <<sessions, next_uuid, output_queues, session_message_queues,
                   active_tasks, task_is_running, adk_sessions, producer_pc,
                   task, streams, api_result, svc_log, put_log>>
    /\ UNCHANGED NotSvc

\* one pass of the while loop of _producer_loop that finds a command
ProducerCommand ==
    /\ producer_pc = "loop"
    /\ is_running
    /\ command_q # <<>>
    /\ LET c == Head(command_q) IN
       /\ command_q' = Tail(command_q)
       /\ adk_sessions' = IF c.command = "create_adk_session"
                          THEN adk_sessions \cup {c.session_id} ELSE adk_sessions
       /\ IF c.command = "START_SESSION_TASK" /\ c.session_id \notin active_tasks
          THEN /\ active_tasks' = active_tasks \cup {c.session_id}
               /\ task' = [task EXCEPT ![c.session_id].pc = "waiting",
                                       ![c.session_id].starts = @ + 1]
          ELSE UNCHANGED <<active_tasks, task>>
       /\ producer_pc' = IF c.command = "TERMINATE" THEN "stopped" ELSE "loop"
    /\ UNCHANGED <<sessions, next_uuid, output_queues, session_message_queues,
                   task_is_running, is_running, streams, api_result, svc_log, put_log>>
    /\ UNCHANGED NotSvc

\* the while condition of _producer_loop fails after stop()
ProducerExit ==
    /\ producer_pc = "loop"
    /\ ~is_running
    /\ producer_pc' = "stopped"
    /\ UNCHANGED <<sessions, next_uuid, command_q, output_queues, session_message_queues,
                   active_tasks, task_is_running, is_running, adk_sessions,
                   task, streams, api_result, svc_log, put_log>>
    /\ UNCHANGED NotSvc

LoopAlive == producer_pc = "loop"

\* user_content = await session_message_queue.get(); the flag is set and
\* runner.run_async is called.  len is the number of events the runner yields.
TaskTakeMessage(sid, len) ==
    /\ LoopAlive
    /\ sid \in DOMAIN task /\ task[sid].pc = "waiting"
    /\ session_message_queues[sid] # <<>>
    /\ task' = [task EXCEPT ![sid].pc = "streaming",
                            ![sid].msg = Head(session_message_queues[sid]),
                            ![sid].len = len, ![sid].put = 0, ![sid].bound = TRUE]
    /\ session_message_queues' = [session_message_queues EXCEPT ![sid] = Tail(@)]
    /\ task_is_running' = SetKey(task_is_running, sid, TRUE)
    /\ UNCHANGED <<sessions, next_uuid, command_q, output_queues, active_tasks,
                   is_running, adk_sessions, producer_pc, streams, api_result, svc_log, put_log>>
    /\ UNCHANGED NotSvc

\* async for item in async_iterable: response_q.put(item)
TaskPutItem(sid) ==
    /\ LoopAlive
    /\ sid \in DOMAIN task /\ task[sid].pc = "streaming"
    /\ task[sid].put < task[sid].len
    /\ output_queues' = [output_queues EXCEPT ![sid] =
           Append(@, [msg |-> task[sid].msg, k |-> task[sid].put + 1])]
    /\ task' = [task EXCEPT ![sid].put = @ + 1]
    /\ UNCHANGED <<sessions, next_uuid, command_q, session_message_queues, active_tasks,
                   task_is_running, is_running, adk_sessions, producer_pc, streams,
                   api_result, svc_log, put_log>>
    /\ UNCHANGED NotSvc

\* the async for loop ends: the flag is cleared and the SENTINEL is put
TaskEndOfResponse(sid) ==
    /\ LoopAlive
    /\ sid \in DOMAIN task /\ task[sid].pc = "streaming"
    /\ task[sid].put = task[sid].len
    /\ task_is_running' = SetKey(task_is_running, sid, FALSE)
    /\ output_queues' = [output_queues EXCEPT ![sid] = Append(@, SENTINEL)]
    /\ task' = [task EXCEPT ![sid].pc = "waiting", ![sid].lens = Append(@, task[sid].len)]

    /\ UNCHANGED <<sessions, next_uuid, command_q, session_message_queues, active_tasks,
                   is_running, adk_sessions, producer_pc, streams, api_result, svc_log, put_log>>
    /\ UNCHANGED NotSvc

\* the task is cancelled at an await, or the runner raises: the except clauses
\* and the finally block.  When no message was ever taken async_iterable is
\* unbound and the finally block itself raises at its first statement.
TaskEnds(sid, why) ==
    /\ LoopAlive
    /\ sid \in DOMAIN task
    /\ \/ why = "cancelled" /\ task[sid].pc \in {"waiting", "streaming"}
       \/ why = "error" /\ task[sid].pc = "streaming"
    /\ IF task[sid].bound
       THEN /\ task_is_running' = SetKey(task_is_running, sid, FALSE)
            /\ output_queues' = [output_queues EXCEPT ![sid] =
                   Append(IF @ # <<>> THEN Tail(@) ELSE @, SENTINEL)]
            /\ task' = [task EXCEPT ![sid].pc = "ended"]
       ELSE /\ task' = [task EXCEPT ![sid].pc = "raised"]
            /\ UNCHANGED <<task_is_running, output_queues>>
    /\ UNCHANGED <<sessions, next_uuid, command_q, session_message_queues, active_tasks,
                   is_running, adk_sessions, producer_pc, streams, api_result, svc_log, put_log>>
    /\ UNCHANGED NotSvc

ActiveStreams(sid) == {k \in 1..Len(streams) : streams[k].sid = sid /\ ~streams[k].done}

\* a call of stream_new_responses(session_id) whose generator is iterated
StreamNewResponses(session_id) ==
    /\ session_id \in DOMAIN output_queues
    /\ Len(streams) < MaxStreams
    /\ ActiveStreams(session_id) = {}
    /\ streams' = Append(streams, [sid |-> session_id, out |-> <<>>, done |-> FALSE])
    /\ UNCHANGED <<sessions, next_uuid, command_q, output_queues, session_message_queues,
                   active_tasks, task_is_running, is_running, adk_sessions, producer_pc,
                   task, api_result, svc_log, put_log>>
    /\ UNCHANGED NotSvc

\* event = response_q.get(); the SENTINEL ends the generator
StreamGet(k) ==
    /\ k \in 1..Len(streams) /\ ~streams[k].done
    /\ output_queues[streams[k].sid] # <<>>
    /\ LET event == Head(output_queues[streams[k].sid]) IN
       streams' = IF event = SENTINEL THEN [streams EXCEPT ![k].done = TRUE]
                  ELSE [streams EXCEPT ![k].out = Append(@, event)]
    /\ output_queues' = [output_queues EXCEPT ![streams[k].sid] = Tail(@)]
    /\ UNCHANGED <<sessions, next_uuid, command_q, session_message_queues,
                   active_tasks, task_is_running, is_running, adk_sessions, producer_pc,
                   task, api_result, svc_log, put_log>>
    /\ UNCHANGED NotSvc

\* -------------------------------------------------------------- app2.py
\* AsyncIteratorBridge.  An item is [it, k]: the k-th item of the iterator that
\* thread it created; the sentinel is [it |-> 0, k |-> 0].
Runs == 1..MaxRuns
BrSentinel == [it |-> 0, k |-> 0]

NoProd == [pc |-> "none", item |-> 0, fac |-> 0, failed |-> FALSE]
NoIter == [state |-> "none", len |-> 0, next |-> 1]
NoGen == [pc |-> "none", out |-> <<>>, stopped |-> FALSE]

\* thread.is_alive()
Alive(r) == br_prod[r].pc \notin {"none", "dead"}

\* the assignments that end stop(): thread, q, _factory and _aiter become None
StopClears ==
    /\ br_thread' = 0
    /\ br_q' = 0
    /\ br_factory' = 0
    /\ br_aiter' = 0

\* stop() is in two steps in each action that calls it: with a live thread the
\* flag is set and the caller waits in join (StopJoin); otherwise the fields
\* are cleared at once.
\* run(factory) is called and its generator is started: stop() begins.  A
\* generator of an earlier call that is suspended at its yield is left behind.
RunCall ==
    /\ br_runs < MaxRuns
    /\ \A r \in 1..br_runs :
           \/ br_gen[r].pc \in {"ended", "abandoned"}
           \/ br_gen[r].pc = "loop" /\ br_gen[r].out # <<>>
    /\ br_runs' = br_runs + 1
    /\ LET g == br_runs + 1
           left == [r \in Runs |->
                       IF r <= br_runs /\ br_gen[r].pc = "loop"
                       THEN [br_gen[r] EXCEPT !.pc = "abandoned", !.stopped = TRUE]
                       ELSE br_gen[r]]
       IN IF br_thread # 0 /\ Alive(br_thread)
          THEN /\ br_stop' = TRUE
               /\ br_gen' = [left EXCEPT ![g].pc = "pre_join", ![br_thread].stopped = TRUE]
               /\ UNCHANGED <<br_thread, br_q, br_factory, br_aiter>>
          ELSE /\ StopClears
               /\ br_gen' = [left EXCEPT ![g].pc = "pre_done"]
               /\ UNCHANGED br_stop
    /\ UNCHANGED <<br_queues, br_prod, br_iter>>
    /\ UNCHANGED NotBridge

\* thread.join(timeout=2.0) returns, the thread having ended or not, and the
\* fields are cleared
StopJoin(g) ==
    /\ br_gen[g].pc \in {"pre_join", "post_join"}
    /\ StopClears
    /\ br_gen' = [br_gen EXCEPT ![g].pc = IF @ = "pre_join" THEN "pre_done" ELSE "ended"]
    /\ UNCHANGED <<br_stop, br_queues, br_prod, br_iter, br_runs>>
    /\ UNCHANGED NotBridge

\* the rest of run() up to the loop: a new queue and a new thread
RunSetup(g) ==
    /\ br_gen[g].pc = "pre_done"
    /\ br_stop' = FALSE
    /\ br_factory' = g
    /\ br_q' = g
    /\ br_thread' = g
    /\ br_prod' = [br_prod EXCEPT ![g].pc = "start"]
    /\ br_gen' = [br_gen EXCEPT ![g].pc = "loop"]
    /\ UNCHANGED <<br_aiter, br_queues, br_iter, br_runs>>
    /\ UNCHANGED NotBridge

\* item = self.q.get() and what follows: the item is yielded, or the sentinel
\* ends the loop and the finally block calls stop()
GenGet(g) ==
    /\ br_gen[g].pc = "loop"
    /\ br_q # 0
    /\ br_queues[br_q] # <<>>
    /\ LET item == Head(br_queues[br_q]) IN
       /\ br_queues' = [br_queues EXCEPT ![br_q] = Tail(@)]
       /\ IF item = BrSentinel
          THEN IF br_thread # 0 /\ Alive(br_thread)
               THEN /\ br_stop' = TRUE
                    /\ br_gen' = [br_gen EXCEPT ![g].pc = "post_join"]
                    /\ UNCHANGED <<br_thread, br_q, br_factory, br_aiter>>
               ELSE /\ StopClears
                    /\ br_gen' = [br_gen EXCEPT ![g].pc = "ended"]
                    /\ UNCHANGED br_stop
          ELSE /\ br_gen' = [br_gen EXCEPT ![g].out = Append(@, item)]
               /\ UNCHANGED <<br_stop, br_thread, br_q, br_factory, br_aiter>>
    /\ UNCHANGED <<br_prod, br_iter, br_runs>>
    /\ UNCHANGED NotBridge

\* the consumer closes the generator while it is suspended at its yield: the
\* finally block calls stop()
GenClose(g) ==
    /\ br_gen[g].pc = "loop"
    /\ br_gen[g].out # <<>>
    /\ IF br_thread # 0 /\ Alive(br_thread)
       THEN /\ br_stop' = TRUE
            /\ br_gen' = [br_gen EXCEPT ![g].pc = "post_join", ![g].stopped = TRUE,
                                        ![br_thread].stopped = TRUE]
            /\ UNCHANGED <<br_thread, br_q, br_factory, br_aiter>>
       ELSE /\ StopClears
            /\ br_gen' = [br_gen EXCEPT ![g].pc = "ended", ![g].stopped = TRUE]
            /\ UNCHANGED br_stop
    /\ UNCHANGED <<br_queues, br_prod, br_iter, br_runs>>
    /\ UNCHANGED NotBridge

\* aclose() of the iterator of thread x called by thread r: its own iterator is
\* closed; an iterator another thread is running is closed or, when it is in the
\* middle of a step, left as it is (the RuntimeError is swallowed)
Aclosed(r, x, effective) ==
    IF x = 0 \/ br_iter[x].state # "open" \/ (x # r /\ ~effective) THEN br_iter
    ELSE [br_iter EXCEPT ![x].state = "closed"]

\* self._aiter = await self._factory(): the factory returns an iterator of len
\* items, or raises; a factory of None is a TypeError
ProdStart(r, len, raises) ==
    /\ br_prod[r].pc = "start"
    /\ IF br_factory = 0 \/ raises
       THEN /\ br_prod' = [br_prod EXCEPT ![r].pc = "finally",
                                          ![r].failed = TRUE]
            /\ UNCHANGED <<br_aiter, br_iter>>
       ELSE /\ br_prod' = [br_prod EXCEPT ![r].pc = "iter", ![r].fac = br_factory]
            /\ br_aiter' = r
            /\ br_iter' = [br_iter EXCEPT ![r] = [state |-> "open", len |-> len, next |-> 1]]
    /\ UNCHANGED <<br_stop, br_thread, br_q, br_factory, br_queues, br_gen, br_runs>>
    /\ UNCHANGED NotBridge

\* the async for takes the next item and tests the stop flag
ProdNext(r, effective) ==
    /\ br_prod[r].pc = "iter"
    /\ br_iter[r].state = "open"
    /\ br_iter[r].next <= br_iter[r].len
    /\ IF br_stop
       THEN /\ br_iter' = [Aclosed(r, br_aiter, effective) EXCEPT ![r].next = @ + 1]
            /\ br_prod' = [br_prod EXCEPT ![r].pc = "finally"]
       ELSE /\ br_iter' = [br_iter EXCEPT ![r].next = @ + 1]
            /\ br_prod' = [br_prod EXCEPT ![r].pc = "put", ![r].item = br_iter[r].next]
    /\ UNCHANGED <<br_stop, br_thread, br_q, br_factory, br_aiter, br_queues, br_gen,
                   br_runs>>
    /\ UNCHANGED NotBridge

\* the iterator is exhausted or was closed: the async for ends
ProdExhausted(r) ==
    /\ br_prod[r].pc = "iter"
    /\ \/ br_iter[r].state = "closed"
       \/ br_iter[r].next > br_iter[r].len
    /\ br_prod' = [br_prod EXCEPT ![r].pc = "finally"]
    /\ UNCHANGED <<br_stop, br_thread, br_q, br_factory, br_aiter, br_queues, br_iter,
                   br_gen, br_runs>>
    /\ UNCHANGED NotBridge

\* the iterator raises
ProdRaises(r) ==
    /\ br_prod[r].pc = "iter"
    /\ br_iter[r].state = "open"
    /\ br_prod' = [br_prod EXCEPT ![r].pc = "finally", ![r].failed = TRUE]
    /\ br_iter' = [br_iter EXCEPT ![r].state = "closed"]
    /\ UNCHANGED <<br_stop, br_thread, br_q, br_factory, br_aiter, br_queues,
                   br_gen, br_runs>>
    /\ UNCHANGED NotBridge

\* self.q.put(item)
QueuePut(queue, item) == Append(queue, item)

\* self.q.put(item); with q None the AttributeError leads to the finally block
ProdPut(r) ==
    /\ br_prod[r].pc = "put"
    /\ IF br_q = 0
       THEN /\ br_prod' = [br_prod EXCEPT ![r].pc = "finally"]
            /\ UNCHANGED br_queues
       ELSE /\ br_queues' = [br_queues EXCEPT ![br_q] =
                                QueuePut(@, [it |-> r, k |-> br_prod[r].item])]
            /\ br_prod' = [br_prod EXCEPT ![r].pc = "iter"]
    /\ UNCHANGED <<br_stop, br_thread, br_q, br_factory, br_aiter, br_iter, br_gen,
                   br_runs>>
    /\ UNCHANGED NotBridge

\* the finally block of _produce: self._aiter is closed and the sentinel is put;
\* with q None the put raises and the thread ends without a sentinel
ProdFinally(r, effective) ==
    /\ br_prod[r].pc = "finally"
    /\ br_iter' = Aclosed(r, br_aiter, effective)
    /\ br_queues' = IF br_q = 0 THEN br_queues
                    ELSE [br_queues EXCEPT ![br_q] = QueuePut(@, BrSentinel)]
    /\ br_prod' = [br_prod EXCEPT ![r].pc = "dead"]
    /\ UNCHANGED <<br_stop, br_thread, br_q, br_factory, br_aiter, br_gen, br_runs>>
    /\ UNCHANGED NotBridge

\* --------------------------------------------------------------- app.py
\* StreamWorker.  A stream's task is named by its stream id.  Every item of
\* out_q carries the id of the stream that put it; sw_out_q keeps, for each
\* stream id, the items put with it in the order they were put.  An item is
\* [kind, id, state, late]: state is the status payload's state, and late
\* records that the item was put for an event the stream received from the
\* runner after start_stream had been called for a newer stream.  A task's
\* superseded field records where the task was when that call was made, and
\* its passed field the events that passed the interruption test.
\* out_q.put(item) for each item of items, all of stream s
Put(q, s, items) == [q EXCEPT ![s] = @ \o items]

SwStreams == 1..MaxSwStreams

\* out_q after the puts of a step of stream s: the ids of the new items follow
PutOrder(s) == sw_order \o [i \in 1..(Len(sw_out_q'[s]) - Len(sw_out_q[s])) |-> s]
NoSwTask == [pc |-> "none", previous_task |-> 0, previous_stream_id |-> 0,
             carry |-> <<>>, interrupted |-> FALSE, received |-> 0, late |-> 0,
             superseded |-> "", passed |-> <<>>]

InvOf(s) == <<"i1", "i2", "i3", "i4">>[s]

\* the events the runner of stream s can yield: a part with text, a thought, a
\* function call or a function response
SwEvents(s) ==
    [role : {"model"}, parts : { <<"a">> }, partial : BOOLEAN, inv : {InvOf(s)},
     author : {"remip_agent"}, kind : {"text"}]
    \cup
    [role : {"model"}, parts : { <<"b">> }, partial : {TRUE}, inv : {InvOf(s)},
     author : {"remip_agent"}, kind : {"thought"}]
    \cup
    [role : {"model"}, parts : { <<"">> }, partial : {FALSE}, inv : {InvOf(s)},
     author : {"remip_agent"}, kind : {"call", "response"}]

\* Event.is_final_response()
is_final_response(e) == ~e.partial /\ e.kind \notin {"call", "response"}

Item(kind, id, state, late) == [kind |-> kind, id |-> id, state |-> state, late |-> late]

\* mutant: a task is never seen to be done
TaskNeverDone(t) == FALSE

\* task.done()
TaskDone(t) == sw_task[t].pc = "done"

\* __init__: the handoff timeout is the value of REMIP_INTERRUPT_FLUSH_TIMEOUT when
\* that is a number above 0, and None otherwise
StreamWorkerInit(timeout_val) ==
    /\ sw_handoff_timeout = "unset"
    /\ sw_handoff_timeout' = IF timeout_val > 0 THEN "seconds" ELSE "none"
    /\ UNCHANGED <<sw_current_stream_id, sw_interrupt_flag, sw_current_task, sw_loop,
                   sw_task, sw_out_q, sw_appended, sw_order>>
    /\ UNCHANGED NotWorker

\* start_stream(prompt): the stream id is incremented, the interrupt flag is set
\* and _start is scheduled on the loop with the task that is current now
start_stream ==
    /\ sw_handoff_timeout # "unset"
    /\ sw_current_stream_id < MaxSwStreams
    /\ LET active_id == sw_current_stream_id
           stream_id == sw_current_stream_id + 1
       IN /\ sw_current_stream_id' = stream_id
          /\ sw_interrupt_flag' = TRUE
          /\ sw_loop' = Append(sw_loop, [stream_id |-> stream_id,
                                         previous_task |-> sw_current_task,
                                         previous_stream_id |-> active_id])
          /\ sw_task' = [s \in SwStreams |->
                            IF s <= active_id /\ ~TaskDone(s) /\ sw_task[s].superseded = ""
                            THEN [sw_task[s] EXCEPT !.superseded = sw_task[s].pc]
                            ELSE sw_task[s]]
    /\ UNCHANGED <<sw_current_task, sw_handoff_timeout, sw_out_q, sw_appended, sw_order>>
    /\ UNCHANGED NotWorker

\* _start, run by the loop: the task is created and becomes the current task
StartCallback ==
    /\ sw_loop # <<>>
    /\ LET c == Head(sw_loop) IN
       /\ sw_task' = [sw_task EXCEPT ![c.stream_id].pc = "created",
                                     ![c.stream_id].previous_task = c.previous_task,
                                     ![c.stream_id].previous_stream_id = c.previous_stream_id]
       /\ sw_current_task' = c.stream_id
    /\ sw_loop' = Tail(sw_loop)
    /\ UNCHANGED <<sw_current_stream_id, sw_interrupt_flag, sw_handoff_timeout, sw_out_q,
                   sw_appended, sw_order>>
    /\ UNCHANGED NotWorker

\* _stream_task after _await_previous_task returned, up to the first step of the
\* runner's generator
BeginItems(s) == << Item("status", s, "starting", FALSE), Item("reset", s, "", FALSE) >>

\* _stream_task from its start: with an unfinished previous task it announces
\* the wait and waits, otherwise it begins at once.  The loop runs the first
\* steps of the tasks in the order the tasks were created.
StreamBegin(s) ==
    /\ sw_task[s].pc = "created"
    /\ \A t \in SwStreams : t < s => sw_task[t].pc # "created"
    /\ LET p == sw_task[s].previous_task IN
       IF p # 0 /\ ~TaskDone(p)
       THEN /\ sw_out_q' = Put(sw_out_q, s, << Item("status", s, "handover_wait", FALSE) >>)
            /\ sw_task' = [sw_task EXCEPT ![s].pc = "await"]
            /\ UNCHANGED sw_interrupt_flag
       ELSE /\ sw_interrupt_flag' = FALSE
            /\ sw_out_q' = Put(sw_out_q, s, BeginItems(s))
            /\ sw_task' = [sw_task EXCEPT ![s].pc = "iter"]
    /\ UNCHANGED <<sw_current_stream_id, sw_current_task, sw_handoff_timeout, sw_loop,
                   sw_appended>>
    /\ sw_order' = PutOrder(s)
    /\ UNCHANGED NotWorker

\* _await_previous_task returns: the previous task finished, or the handoff
\* timeout ran out
StreamResume(s) ==
    /\ sw_task[s].pc = "await"
    /\ TaskDone(sw_task[s].previous_task) \/ sw_handoff_timeout = "seconds"
    /\ sw_interrupt_flag' = FALSE
    /\ sw_out_q' = Put(sw_out_q, s, BeginItems(s))
    /\ sw_task' = [sw_task EXCEPT ![s].pc = "iter"]
    /\ UNCHANGED <<sw_current_stream_id, sw_current_task, sw_handoff_timeout, sw_loop,
                   sw_appended>>
    /\ sw_order' = PutOrder(s)
    /\ UNCHANGED NotWorker

\* mutant: only the interrupt flag is tested
InterruptedFlagOnly(s) == sw_interrupt_flag

\* the test made on every event: self._interrupt_flag or
\* stream_id != self._current_stream_id
InterruptedNow(s) == sw_interrupt_flag \/ s # sw_current_stream_id

\* the state of the status payload of an event
StatusState(e) ==
    IF e.author = "mentor_agent" THEN "mentor"
    ELSE IF e.author = "remip_agent" THEN "worker" ELSE "running"

\* the number of events the streams of S have received
RECURSIVE Received(_)
Received(S) ==
    IF S = {} THEN 0
    ELSE LET s == CHOOSE x \in S : TRUE IN sw_task[s].received + Received(S \ {s})

\* the items put for an event that passed the test
EventItems(s, e, late) ==
    CASE e.kind = "call" -> << Item("function_call", s, "", late) >>
      [] e.kind = "response" -> << Item("function_response", s, "", late) >>
      [] e.kind = "text" ->
            << Item(IF is_final_response(e) THEN "final_chunk" ELSE "chunk", s, "", late) >>
      [] e.kind = "thought" ->
            << Item(IF is_final_response(e) THEN "final_thought" ELSE "thought", s, "", late) >>
      [] OTHER -> << >>

\* mutant: a final response leaves the kept events as they are
CarryKeepsAll(carry_events, e) ==
    IF ~is_final_response(e) THEN Append(carry_events, e) ELSE carry_events

\* carry_events after an event: a non-final event is kept, a final response
\* drops the kept events of its invocation
CarryAfter(carry_events, e) ==
    IF ~is_final_response(e) THEN Append(carry_events, e)
    ELSE SelectSeq(carry_events, LAMBDA ev : ev.inv # e.inv)

\* one pass of the async for: the event's status is put and the interruption
\* test is made; an interrupted stream closes the generator and leaves the loop,
\* otherwise the event's items are put and carry_events is updated
StreamEvent(s, e) ==
    /\ sw_task[s].pc = "iter"
    /\ Received(SwStreams) < MaxSwEvents
    /\ LET late == s # sw_current_stream_id
           status == Item("status", s, StatusState(e), late)
       IN IF InterruptedNow(s)
          THEN /\ sw_out_q' = Put(sw_out_q, s, << status >>)
               /\ sw_task' = [sw_task EXCEPT ![s].received = @ + 1,
                                             ![s].late = IF late THEN @ + 1 ELSE @,
                                             ![s].interrupted = TRUE,
                                             ![s].pc = "finally"]
          ELSE /\ sw_out_q' = Put(sw_out_q, s, << status >> \o EventItems(s, e, late))
               /\ sw_task' = [sw_task EXCEPT ![s].received = @ + 1,
                                             ![s].late = IF late THEN @ + 1 ELSE @,
                                             ![s].carry = CarryAfter(@, e),
                                             ![s].passed = Append(@, e)]
    /\ UNCHANGED <<sw_current_stream_id, sw_interrupt_flag, sw_current_task,
                   sw_handoff_timeout, sw_loop, sw_appended>>
    /\ sw_order' = PutOrder(s)
    /\ UNCHANGED NotWorker

\* the generator ends: the stream completes
StreamExhausted(s) ==
    /\ sw_task[s].pc = "iter"
    /\ sw_out_q' = Put(sw_out_q, s, << Item("status", s, "completed", FALSE),
                                        Item("done", s, "", FALSE) >>)
    /\ sw_task' = [sw_task EXCEPT ![s].pc = "finally"]
    /\ UNCHANGED <<sw_current_stream_id, sw_interrupt_flag, sw_current_task,
                   sw_handoff_timeout, sw_loop, sw_appended>>
    /\ sw_order' = PutOrder(s)
    /\ UNCHANGED NotWorker

\* the generator raises
StreamRaises(s) ==
    /\ sw_task[s].pc = "iter"
    /\ sw_out_q' = Put(sw_out_q, s, << Item("status", s, "error", FALSE),
                                        Item("error", s, "", FALSE) >>)
    /\ sw_task' = [sw_task EXCEPT ![s].pc = "finally"]
    /\ UNCHANGED <<sw_current_stream_id, sw_interrupt_flag, sw_current_task,
                   sw_handoff_timeout, sw_loop, sw_appended>>
    /\ sw_order' = PutOrder(s)
    /\ UNCHANGED NotWorker

\* _commit_carry_events
CommitCarry(appended, carry_events) ==
    appended \o build_committed_events_from_partials(carry_events)

\* mutant: the finally block says interrupted whatever the flag
FinallyItemsAlways(s, interrupted) ==
    << Item("status", s, "interrupted", FALSE), Item("interrupted", s, "", FALSE) >>

\* the items the finally block puts, under if interrupted
FinallyItems(s, interrupted) ==
    IF interrupted
    THEN << Item("status", s, "interrupted", FALSE), Item("interrupted", s, "", FALSE) >>
    ELSE << >>

\* the finally block: the carried events are committed, an interrupted stream
\* says so, and the task stops being the current task
StreamFinally(s) ==
    /\ sw_task[s].pc = "finally"
    /\ sw_appended' = CommitCarry(sw_appended, sw_task[s].carry)
    /\ sw_out_q' = Put(sw_out_q, s, FinallyItems(s, sw_task[s].interrupted))
    /\ sw_current_task' = IF sw_current_task = s THEN 0 ELSE sw_current_task
    /\ sw_task' = [sw_task EXCEPT ![s].pc = "done"]
    /\ UNCHANGED <<sw_current_stream_id, sw_interrupt_flag, sw_handoff_timeout, sw_loop>>
    /\ sw_order' = PutOrder(s)
    /\ UNCHANGED NotWorker

\* ------------------------------------------------ inputs of chat_history
PartTexts == { <<"">>, <<" ">>, <<"a">>, <<"b">> }

EtmInputs ==
    [role : {"user"}, parts : { <<"a">>, <<"">> }, partial : {FALSE},
     inv : {""}, author : {"user"}]
    \cup
    [role : {"model"}, parts : PartTexts, partial : BOOLEAN,
     inv : {"", "i1"}, author : {"remip_agent"}]

BcInputs ==
    [role : {"model"}, parts : PartTexts, partial : {TRUE},
     inv : {"", "i1", "i2"}, author : {"remip_agent", "mentor_agent"}]

\* ------------------------------------------------- app.py: process_event
\* A part has a thought flag, a text (<< >> for none), and the name of its
\* function call and of its function response ("" for none).  A text is a
\* sequence of strings that are joined when it is shown; the texts of parts
\* are sequences of single characters.
Part(thought, text, function_call, function_response) ==
    [thought |-> thought, text |-> text, function_call |-> function_call,
     function_response |-> function_response]

\* An event's content is None, or a Content with a list of parts
NoContent == [none |-> TRUE, parts |-> << >>]
Content(parts) == [none |-> FALSE, parts |-> parts]

TOOL_SKIP_NAMES == {"exit_loop", "ask"}

\* html.escape on the tool names in use
HtmlEscape(name) == IF name = "a<b" THEN "a&lt;b" ELSE name

\* _safe_pretty_json of the payload of a tool of that name
PrettyJson(name) == "{\n  \"tool\": \"" \o name \o "\"\n}"

\* the code fence of three backquotes
Fence == "[fence]"

render_tool_block(kind, name) ==
    IF name = "" THEN << >>
    ELSE << "\n\n<details>\n<summary>\n",
            IF kind = "call" THEN "Tool Call" ELSE "Tool Response",
            ": ", HtmlEscape(name), "\n</summary>\n\n", Fence, "json\n", PrettyJson(name),
            "\n", Fence, "\n\n</details>\n\n" >>

NoFragments == [text_parts |-> << >>, thought_parts |-> << >>, tool_calls |-> << >>,
                tool_responses |-> << >>]

\* mutant: the thought flag is not looked at
IsThoughtNever(part) == FALSE

\* getattr(part, "thought", False)
IsThought(part) == part.thought

\* one pass of the loop over the parts
FragmentStep(f, part) ==
    IF IsThought(part)
    THEN IF part.text # << >>
         THEN [f EXCEPT !.thought_parts = Append(@, part.text)] ELSE f
    ELSE IF part.function_call # ""
    THEN IF part.function_call \notin TOOL_SKIP_NAMES
         THEN [f EXCEPT !.tool_calls = Append(@, part.function_call)] ELSE f
    ELSE IF part.function_response # ""
    THEN IF part.function_response \notin TOOL_SKIP_NAMES
         THEN [f EXCEPT !.tool_responses = Append(@, part.function_response)] ELSE f
    ELSE IF part.text # << >>
    THEN [f EXCEPT !.text_parts = Append(@, part.text)]
    ELSE f

RECURSIVE FragmentFold(_, _)
FragmentFold(f, parts) ==
    IF parts = << >> THEN f ELSE FragmentFold(FragmentStep(f, Head(parts)), Tail(parts))

\* "".join(texts)
RECURSIVE Concat(_)
Concat(texts) == IF texts = << >> THEN << >> ELSE Head(texts) \o Concat(Tail(texts))

\* sep.join(texts)
RECURSIVE JoinWith(_, _)
JoinWith(sep, texts) ==
    IF texts = << >> THEN << >>
    ELSE IF Len(texts) = 1 THEN texts[1]
    ELSE texts[1] \o << sep >> \o JoinWith(sep, Tail(texts))

\* tp.strip() for tp in thought_parts if tp.strip()
RECURSIVE StrippedNonBlank(_)
StrippedNonBlank(texts) ==
    IF texts = << >> THEN << >>
    ELSE (IF Strip(Head(texts)) # << >> THEN << Strip(Head(texts)) >> ELSE << >>)
         \o StrippedNonBlank(Tail(texts))

extract_event_fragments(event) ==
    IF event.content.none
    THEN [text |-> << >>, thought |-> << >>, tool_calls |-> << >>, tool_responses |-> << >>]
    ELSE LET f == FragmentFold(NoFragments, event.content.parts)
         IN [text |-> Concat(f.text_parts),
             thought |-> JoinWith("\n\n", StrippedNonBlank(f.thought_parts)),
             tool_calls |-> f.tool_calls,
             tool_responses |-> f.tool_responses]

\* the blocks of the tools of names, one after the other
RECURSIVE Blocks(_, _)
Blocks(kind, names) ==
    IF names = << >> THEN << >>
    ELSE render_tool_block(kind, Head(names)) \o Blocks(kind, Tail(names))

\* a str | None result: x or None
OrNone(text) == [none |-> text = << >>, s |-> text]

process_event(event) ==
    LET f == extract_event_fragments(event)
        response_md == f.text \o Blocks("call", f.tool_calls)
                              \o Blocks("response", f.tool_responses)
    IN [author |-> event.author, response |-> OrNone(response_md),
        thoughts |-> OrNone(f.thought)]

\* ------------------------------------------- app.py: handle_stream_event
\* ss.active_stream_id is 0 for None; loop_status is its "state" entry
NoSs == [active_stream_id |-> 0, live_text |-> << >>, thought_text |-> << >>,
         tool_markdown |-> << >>, streaming_active |-> FALSE, loop_status |-> ""]

\* str.startswith and str.endswith
startswith(text, prefix) ==
    Len(prefix) <= Len(text) /\ SubSeq(text, 1, Len(prefix)) = prefix
endswith(text, suffix) ==
    Len(suffix) <= Len(text)
    /\ SubSeq(text, Len(text) - Len(suffix) + 1, Len(text)) = suffix

\* mutant: a final chunk is added like a chunk
FinalChunkAdded(live_text, payload) == live_text \o payload

\* live_text after a final_chunk
FinalChunk(live_text, payload) ==
    IF payload = << >> THEN live_text
    ELSE IF live_text # << >> /\ startswith(payload, live_text) THEN payload
    ELSE IF live_text # << >> /\ endswith(live_text, payload) THEN live_text
    ELSE live_text \o payload

\* thought_text after a thought
Thought(thought_text, payload) ==
    IF payload = << >> THEN thought_text
    ELSE IF thought_text # << >> THEN thought_text \o << "\n\n" >> \o payload
    ELSE payload

\* thought_text after a final_thought
FinalThought(thought_text, payload) ==
    IF payload = << >> THEN thought_text
    ELSE IF thought_text # << >> /\ startswith(payload, thought_text) THEN payload
    ELSE IF thought_text # << >> /\ endswith(thought_text, payload) THEN thought_text
    ELSE Thought(thought_text, payload)

\* the result of handle_stream_event: the session state and the returned flag
Handled(state, completed) == [ss |-> state, completed |-> completed]

\* mutant: items are handled whatever stream they are of
StaleNever(state, stream_id) == FALSE

\* active_id is not None and stream_id != active_id
Stale(state, stream_id) ==
    state.active_stream_id # 0 /\ stream_id # state.active_stream_id

\* handle_stream_event; the payload is a text, a tool name or a status state
handle_stream_event(state, kind, stream_id, payload) ==
    IF Stale(state, stream_id) THEN Handled(state, FALSE)
    ELSE CASE kind = "status" ->
                Handled([state EXCEPT !.loop_status = payload], FALSE)
           [] kind = "reset" ->
                Handled([state EXCEPT !.live_text = << >>, !.streaming_active = TRUE,
                                      !.thought_text = << >>, !.tool_markdown = << >>,
                                      !.loop_status = "running"], FALSE)
           [] kind = "chunk" ->
                Handled([state EXCEPT !.live_text = @ \o payload], FALSE)
           [] kind = "final_chunk" ->
                Handled([state EXCEPT !.live_text = FinalChunk(@, payload)], FALSE)
           [] kind = "thought" ->
                Handled([state EXCEPT !.thought_text = Thought(@, payload)], FALSE)
           [] kind = "function_call" ->
                Handled([state EXCEPT !.tool_markdown =
                                          @ \o render_tool_block("call", payload)], FALSE)
           [] kind = "function_response" ->
                Handled([state EXCEPT !.tool_markdown =
                                          @ \o render_tool_block("response", payload)], FALSE)
           [] kind = "final_thought" ->
                Handled([state EXCEPT !.thought_text = FinalThought(@, payload)], FALSE)
           [] kind = "done" ->
                Handled([state EXCEPT !.streaming_active = FALSE, !.active_stream_id = 0,
                                      !.loop_status = "completed"], TRUE)
           [] kind = "error" ->
                Handled([state EXCEPT !.streaming_active = FALSE, !.active_stream_id = 0,
                                      !.loop_status = "error"], TRUE)
           [] kind = "interrupted" ->
                Handled([state EXCEPT !.streaming_active = FALSE, !.active_stream_id = 0,
                                      !.loop_status = "interrupted"], TRUE)
           [] OTHER -> Handled(state, FALSE)

\* the payload the worker puts with an item of its stream
PayloadOf(item) ==
    CASE item.kind \in {"chunk", "final_chunk"} -> <<"a">>
      [] item.kind \in {"thought", "final_thought"} -> <<"b">>
      [] item.kind \in {"function_call", "function_response"} -> "my_tool"
      [] item.kind = "status" -> item.state
      [] OTHER -> << >>

\* the n-th item put on out_q
QueueItem(n) ==
    LET s == sw_order[n]
        k == Cardinality({i \in 1..n : sw_order[i] = s})
    IN sw_out_q[s][k]

\* ------------------------------------------- inputs of the tool callbacks
\* the string of n characters a, b, a, b, ...
Chars(n) == [i \in 1..n |-> IF i % 2 = 1 THEN "a" ELSE "b"]

ToolResponses ==
    { Response("none", FALSE, FALSE, FALSE),
      Response("mapping", TRUE, TRUE, FALSE),
      Response("mapping", FALSE, FALSE, TRUE),
      Response("mapping", FALSE, FALSE, FALSE),
      Response("object", TRUE, TRUE, FALSE),
      Response("object", TRUE, FALSE, FALSE) }

\* the responses of the MCP tools in a run of the loop: a CallToolResult
LoopResponses ==
    { Response("object", TRUE, TRUE, FALSE), Response("object", TRUE, FALSE, FALSE) }

\* argument dicts for the calls that are tracked one after the other
TrackArgs ==
    { << >>,
      << [k |-> "x", v |-> IntValue(12)] >>,
      << [k |-> "x", v |-> StrValue(Chars(ArgLimit + 1))] >> }

\* argument values around the limit
ArgLens == {0, 1} \cup ((ArgLimit - 1)..(ArgLimit + MaxOver))
LongValues == {StrValue(Chars(n)) : n \in ArgLens} \cup {IntValue(0), IntValue(120)}
LongArgs ==
    { << [k |-> "x", v |-> v] >> : v \in LongValues }
    \cup { << [k |-> "x", v |-> v], [k |-> "y", v |-> w] >> :
              v \in LongValues, w \in {StrValue(Chars(ArgLimit)), StrValue(Chars(ArgLimit + 1))} }

\* the callbacks are those of remip_agent
TrackAgents == {"remip_agent"}

\* ---------------------------------------------- inputs of process_event
\* thought parts say t, other text parts say x; either may be blank or padded
PeParts ==
    { Part(TRUE, <<"t">>, "", ""), Part(TRUE, <<" ", "t">>, "", ""),
      Part(TRUE, <<" ">>, "", ""), Part(TRUE, << >>, "", ""),
      Part(FALSE, <<"x">>, "", ""), Part(FALSE, <<" ">>, "", ""),
      Part(FALSE, << >>, "my_tool", ""), Part(FALSE, << >>, "exit_loop", ""),
      Part(FALSE, << >>, "", "my_tool"), Part(FALSE, << >>, "", "a<b") }

PeContents ==
    {NoContent} \cup {Content(ps) : ps \in UNION {[1..n -> PeParts] : n \in 0..MaxParts}}

PeEvents == [author : {"assistant", "remip_agent"}, content : PeContents]

\* ------------------------------------------------------------- actions
\* before_agent_callback on the state
ClearTrack ==
    /\ tt_state' = clear_tool_calling_track(tt_state)
    /\ tt_log' = << >>
    /\ tt_state' # tt_state \/ tt_log' # tt_log
    /\ UNCHANGED NotTrack

\* after_tool_callback of agent.py on the state
TrackToolCalling(agent_name, tool, args, tool_response, max) ==
    /\ Len(tt_log) < max
    /\ tt_state' = track_tool_calling(tt_state, agent_name, tool, args, tool_response)
    /\ tt_log' = Append(tt_log, Call(FALSE, agent_name, tool, args, tool_response))
    /\ UNCHANGED NotTrack

\* after_tool_callback of app.py on the state
AppTrackToolCalling(agent_name, tool, args, tool_response, max) ==
    /\ Len(tt_log) < max
    /\ tt_state' = app_track_tool_calling(tt_state, agent_name, tool, args, tool_response)
    /\ tt_log' = Append(tt_log, Call(TRUE, agent_name, tool, args, tool_response))
    /\ UNCHANGED NotTrack

\* trigger_prompt after start_stream has returned: the new stream is made the
\* active one
TriggerSet ==
    /\ ui_triggered < sw_current_stream_id
    /\ ss' = [active_stream_id |-> sw_current_stream_id, live_text |-> << >>,
              thought_text |-> << >>, tool_markdown |-> << >>,
              streaming_active |-> TRUE, loop_status |-> "starting"]
    /\ ui_triggered' = sw_current_stream_id
    /\ UNCHANGED <<ui_drained, ui_since, ui_finals>>
    /\ UNCHANGED NotUi

\* one pass of drain_queue's loop: an item is taken from out_q and handled
DrainItem ==
    /\ ui_triggered = sw_current_stream_id
    /\ ui_drained < Len(sw_order)
    /\ LET item == QueueItem(ui_drained + 1) IN
       ss' = handle_stream_event(ss, item.kind, item.id, PayloadOf(item)).ss
    /\ ui_drained' = ui_drained + 1
    /\ UNCHANGED <<ui_triggered, ui_since, ui_finals>>
    /\ UNCHANGED NotUi

\* the page's script calls trigger_prompt: start_stream, from the page
PageStartStream ==
    /\ ui_triggered = sw_current_stream_id
    /\ start_stream

\* handle_stream_event on a reset, a chunk or a final_chunk of the active stream
HandleLive(kind, payload) ==
    /\ kind = "chunk" => Len(ss.live_text) + Len(payload) <= MaxLive
    /\ ss' = handle_stream_event(ss, kind, ss.active_stream_id, payload).ss
    /\ ui_since' = IF kind = "chunk" THEN ui_since \o payload ELSE << >>
    /\ ui_finals' = CASE kind = "reset" -> << >>
                      [] kind = "final_chunk" -> ui_finals \o payload
                      [] OTHER -> ui_finals
    /\ UNCHANGED <<ui_drained, ui_triggered>>
    /\ UNCHANGED NotUi

\* process_event is applied to an event; the function keeps nothing between
\* calls, so one call per behaviour covers it
ProcessEvent(e) ==
    /\ pe_event.author = ""
    /\ pe_event' = e
    /\ pe_result' = process_event(e)
    /\ UNCHANGED NotEvent

AppendEvent(e) ==
    /\ Len(events) < MaxEvents
    /\ events' = Append(events, e)
    /\ history' = events_to_messages(events')
    /\ UNCHANGED NotHist

AppendCarry(e) ==
    /\ Len(carry) < MaxCarry
    /\ carry' = Append(carry, e)
    /\ committed' = build_committed_events_from_partials(carry')
    /\ UNCHANGED NotCommit

\* ------------------------------------------- app.py: ensure_http_server
HsPorts == {3333, 3334}
NoHsResult == [called |-> FALSE, port |-> 0, raised |-> "", value |-> 0, open |-> FALSE]

\* a server process listens on the port
Listening(procs, port) ==
    \E p \in 1..Len(procs) : procs[p].port = port /\ procs[p].state = "listening"

\* _wait_for_port: True when the port accepts a connection before the deadline
wait_for_port(procs, port) == Listening(procs, port)

\* subprocess.Popen(...): the new process; within the 10 seconds of the wait it
\* comes up when up is true and no other process holds the port
Popen(procs, port, up) ==
    Append(procs, [port |-> port,
                   state |-> IF up /\ ~Listening(procs, port)
                             THEN "listening" ELSE "starting"])

\* st.cache_resource stores the value a call returned; a call that raised
\* stores nothing
Cached(port, raised) == IF raised THEN hs_cache ELSE [hs_cache EXCEPT ![port] = TRUE]

\* the body of ensure_http_server: spawn, register the exit handler, wait
ensure_http_server(procs, port, up) ==
    LET spawned == Popen(procs, port, up)
        open == wait_for_port(spawned, port)
    IN [procs |-> spawned,
        raised |-> IF open THEN "" ELSE "RuntimeError",
        value |-> IF open THEN port ELSE 0]

\* a call of ensure_http_server(port) through st.cache_resource: a cached value
\* is returned without running the body
EnsureHttpServer(port, up) ==
    /\ ~hs_exiting
    /\ IF hs_cache[port]
       THEN /\ hs_result' = [called |-> TRUE, port |-> port, raised |-> "",
                             value |-> port, open |-> Listening(hs_procs, port)]
            /\ UNCHANGED <<hs_cache, hs_procs>>
       ELSE /\ Len(hs_procs) < MaxSpawns
            /\ LET r == ensure_http_server(hs_procs, port, up) IN
               /\ hs_procs' = r.procs
               /\ hs_cache' = Cached(port, r.raised # "")
               /\ hs_result' = [called |-> TRUE, port |-> port, raised |-> r.raised,
                                value |-> r.value, open |-> Listening(r.procs, port)]
    /\ UNCHANGED hs_exiting
    /\ UNCHANGED NotServer

\* a process that was still starting when the wait ended begins to listen
ServerUp(p) ==
    /\ p \in 1..Len(hs_procs)
    /\ hs_procs[p].state = "starting"
    /\ ~Listening(hs_procs, hs_procs[p].port)
    /\ hs_procs' = [hs_procs EXCEPT ![p].state = "listening"]
    /\ UNCHANGED <<hs_cache, hs_exiting, hs_result>>
    /\ UNCHANGED NotServer

\* a process that did not come up exits (npx failed, or the port is taken)
ServerFails(p) ==
    /\ p \in 1..Len(hs_procs)
    /\ hs_procs[p].state = "starting"
    /\ hs_procs' = [hs_procs EXCEPT ![p].state = "exited"]
    /\ UNCHANGED <<hs_cache, hs_exiting, hs_result>>
    /\ UNCHANGED NotServer

\* _cleanup of one process: killpg and wait
Cleanup(proc) ==
    IF proc.state \in {"starting", "listening"}
    THEN [proc EXCEPT !.state = "terminated"] ELSE proc

\* the Python process exits: every registered _cleanup runs
AtExit ==
    /\ ~hs_exiting
    /\ hs_exiting' = TRUE
    /\ hs_procs' = [p \in 1..Len(hs_procs) |-> Cleanup(hs_procs[p])]
    /\ UNCHANGED <<hs_cache, hs_result>>
    /\ UNCHANGED NotServer

Init ==
    /\ events = <<>>
    /\ history = events_to_messages(<<>>)
    /\ carry = <<>>
    /\ committed = build_committed_events_from_partials(<<>>)
    /\ agent = NoAgent
    /\ la_pc = "unbuilt"
    /\ la_idx = 1
    /\ times_looped = 0
    /\ actions = NoActions
    /\ tools_used = <<>>
    /\ la_trace = <<>>
    /\ la_agent_mode = "unset"
    /\ sessions = << >>
    /\ next_uuid = 1
    /\ command_q = <<>>
    /\ output_queues = << >>
    /\ session_message_queues = << >>
    /\ active_tasks = {}
    /\ task_is_running = << >>
    /\ is_running = TRUE
    /\ adk_sessions = {}
    /\ producer_pc = "loop"
    /\ task = << >>
    /\ streams = <<>>
    /\ api_result = NoResult
    /\ svc_log = <<>>
    /\ put_log = << >>
    /\ br_stop = FALSE
    /\ br_thread = 0
    /\ br_q = 0
    /\ br_factory = 0
    /\ br_aiter = 0
    /\ br_queues = [r \in Runs |-> <<>>]
    /\ br_prod = [r \in Runs |-> NoProd]
    /\ br_iter = [r \in Runs |-> NoIter]
    /\ br_gen = [r \in Runs |-> NoGen]
    /\ br_runs = 0
    /\ sw_current_stream_id = 0
    /\ sw_interrupt_flag = FALSE
    /\ sw_current_task = 0
    /\ sw_handoff_timeout = "unset"
    /\ sw_loop = <<>>
    /\ sw_task = [s \in SwStreams |-> NoSwTask]
    /\ sw_out_q = [s \in SwStreams |-> <<>>]
    /\ sw_appended = <<>>
    /\ sw_order = <<>>
    /\ tt_state = NoToolsUsed
    /\ tt_log = << >>
    /\ pe_event = [author |-> "", content |-> NoContent]
    /\ pe_result = process_event(pe_event)
    /\ ss = NoSs
    /\ ui_drained = 0
    /\ ui_triggered = 0
    /\ ui_since = << >>
    /\ ui_finals = << >>
    /\ hs_cache = [port \in HsPorts |-> FALSE]
    /\ hs_procs = << >>
    /\ hs_exiting = FALSE
    /\ hs_result = NoHsResult

NextMessages == \E e \in EtmInputs : AppendEvent(e)
SpecMessages == Init /\ [][NextMessages]_vars

NextLoop ==
    \/ \E m \in BOOLEAN, n \in 1..MaxIter : BuildAgent(m, n)
    \/ RunAgent
    \/ SubAgentStart
    \/ \E t \in WorkerTools, r \in LoopResponses : WorkerToolCall(t, << >>, r)
    \/ \E t \in MentorTools : MentorToolCall(t)
    \/ SubAgentFinish
SpecLoop == Init /\ [][NextLoop]_vars

NextSessions ==
    \/ \E u \in Users, m \in BOOLEAN : CreateTalkSession(u, m)
    \/ \E u \in Users, sid \in 1..MaxSessions + 1 : GetTalkSession(u, sid)
    \/ \E u \in Users : ListTalkSessions(u)
    \/ \E u \in Users, sid \in 1..MaxSessions : AddMessage(u, sid, 1)
    \/ Stop
    \/ ProducerExit
SpecSessions == Init /\ [][NextSessions]_vars

NextService ==
    \/ next_uuid <= MaxTaskSessions /\ CreateTalkSession("user_a", TRUE)
    \/ \E sid \in 1..MaxSessions : PutUserContent(sid)
    \/ ProducerCommand
    \/ \E sid \in 1..MaxSessions, n \in 1..MaxRunnerEvents : TaskTakeMessage(sid, n)
    \/ \E sid \in 1..MaxSessions : TaskPutItem(sid)
    \/ \E sid \in 1..MaxSessions : TaskEndOfResponse(sid)
    \/ \E sid \in 1..MaxSessions, why \in {"cancelled", "error"} : TaskEnds(sid, why)
    \/ \E sid \in 1..MaxSessions : StreamNewResponses(sid)
    \/ \E k \in 1..MaxStreams : StreamGet(k)
SpecService == Init /\ [][NextService]_vars

NextBridge ==
    \/ RunCall
    \/ \E g \in Runs : StopJoin(g)
    \/ \E g \in Runs : RunSetup(g)
    \/ \E g \in Runs : GenGet(g)
    \/ \E g \in Runs : GenClose(g)
    \/ \E r \in Runs, n \in 0..MaxItems, f \in BOOLEAN : ProdStart(r, n, f)
    \/ \E r \in Runs, e \in BOOLEAN : ProdNext(r, e)
    \/ \E r \in Runs : ProdExhausted(r)
    \/ \E r \in Runs : ProdRaises(r)
    \/ \E r \in Runs : ProdPut(r)
    \/ \E r \in Runs, e \in BOOLEAN : ProdFinally(r, e)
SpecBridge == Init /\ [][NextBridge]_vars

NextWorker ==
    \/ \E t \in {0, 1} : StreamWorkerInit(t)
    \/ start_stream
    \/ StartCallback
    \/ \E s \in SwStreams : StreamBegin(s)
    \/ \E s \in SwStreams : StreamResume(s)
    \/ \E s \in SwStreams : \E e \in SwEvents(s) : StreamEvent(s, e)
    \/ \E s \in SwStreams : StreamExhausted(s)
    \/ \E s \in SwStreams : StreamRaises(s)
    \/ \E s \in SwStreams : StreamFinally(s)
SpecWorker == Init /\ [][NextWorker]_vars

\* the hand-over between streams, with one kind of event: a partial text
HandoverEvents(s) == {e \in SwEvents(s) : e.kind = "text" /\ e.partial}

\* a step of the runner's generator of stream s: it yields an event, ends or raises
GenStep(s) ==
    \/ \E e \in HandoverEvents(s) : StreamEvent(s, e)
    \/ StreamExhausted(s)
    \/ StreamRaises(s)

\* a step of the worker's loop: a callback or a task goes on
LoopStep ==
    \/ StartCallback
    \/ \E s \in SwStreams : StreamBegin(s)
    \/ \E s \in SwStreams : StreamResume(s)
    \/ \E s \in SwStreams : GenStep(s)
    \/ \E s \in SwStreams : StreamFinally(s)

NextHandover ==
    \/ \E t \in {0, 1} : StreamWorkerInit(t)
    \/ start_stream
    \/ LoopStep

\* The worker's loop runs for ever (_run_loop): while a callback or a task can
\* go on, one does; a generator that is iterated goes on to its next event or
\* to its end.
SpecHandover == Init /\ [][NextHandover]_vars /\ WF_vars(LoopStep)

NextTrack ==
    \/ ClearTrack
    \/ \E a \in TrackAgents, t \in WorkerTools, g \in TrackArgs, r \in ToolResponses :
           TrackToolCalling(a, t, g, r, MaxTrack)
    \/ \E a \in TrackAgents, t \in WorkerTools, g \in TrackArgs, r \in ToolResponses :
           AppTrackToolCalling(a, t, g, r, MaxTrack)
SpecTrack == Init /\ [][NextTrack]_vars

NextTruncate ==
    \/ ClearTrack
    \/ \E t \in WorkerTools, g \in LongArgs, r \in LoopResponses :
           TrackToolCalling("remip_agent", t, g, r, 1)
    \/ \E t \in WorkerTools, g \in LongArgs, r \in LoopResponses :
           AppTrackToolCalling("remip_agent", t, g, r, 1)
SpecTruncate == Init /\ [][NextTruncate]_vars

NextEvent == \E e \in PeEvents : ProcessEvent(e)
SpecEvent == Init /\ [][NextEvent]_vars

\* the page and the worker
NextUi ==
    \/ \E t \in {0, 1} : StreamWorkerInit(t)
    \/ PageStartStream
    \/ TriggerSet
    \/ LoopStep
    \/ DrainItem
SpecUi == Init /\ [][NextUi]_vars

\* the items of one stream as the worker puts them: after a reset, chunks and
\* the final_chunk that has the text of the chunks since the last one
LivePayloads == { <<"a">>, <<"b">>, <<"a", "b">> }
NextLive ==
    \/ HandleLive("reset", << >>)
    \/ \E payload \in LivePayloads : HandleLive("chunk", payload)
    \/ HandleLive("final_chunk", ui_since)
SpecLive == Init /\ [][NextLive]_vars

NextServer ==
    \/ \E port \in HsPorts, up \in BOOLEAN : EnsureHttpServer(port, up)
    \/ \E p \in 1..MaxSpawns : ServerUp(p)
    \/ \E p \in 1..MaxSpawns : ServerFails(p)
    \/ AtExit
SpecServer == Init /\ [][NextServer]_vars

NextCommit == 

\E e \in BcInputs : AppendCarry(e)
SpecCommit == Init /\ [][NextCommit]_vars

\* ============================================================ claims
\* --- index-wise description of an event list, used to state the claims
Max(S) == CHOOSE x \in S : \A y \in S : y <= x
Min(S) == CHOOSE x \in S : \A y \in S : x <= y

ModelText(evs, k, i) ==
    evs[k].role # "user" /\ event_text(evs[k]) # <<>> /\ evs[k].inv = i
FinalIdx(evs, i) == {k \in 1..Len(evs) : ModelText(evs, k, i) /\ ~evs[k].partial}
PartialIdx(evs, i) == {k \in 1..Len(evs) : ModelText(evs, k, i) /\ evs[k].partial}
InvsOf(evs) == {evs[k].inv : k \in {j \in 1..Len(evs) : evs[j].role # "user"}}

PrevFinal(evs, k, i) ==
    LET F == {j \in FinalIdx(evs, i) : j < k} IN IF F = {} THEN 0 ELSE Max(F)

\* the texts of the partial events of invocation i at the indices lo..hi, joined
RECURSIVE PartialsText(_, _, _, _)
PartialsText(evs, i, lo, hi) ==
    IF lo > hi THEN <<>>
    ELSE (IF lo \in PartialIdx(evs, i) THEN event_text(evs[lo]) ELSE <<>>)
         \o PartialsText(evs, i, lo + 1, hi)

\* the partial events of i that no final text event of i follows
TrailingIdx(evs, i) == {k \in PartialIdx(evs, i) : k > PrevFinal(evs, Len(evs) + 1, i)}
TrailingText(evs, i) == PartialsText(evs, i, PrevFinal(evs, Len(evs) + 1, i) + 1, Len(evs))
Interrupted(evs) ==
    {i \in InvsOf(evs) : TrailingIdx(evs, i) # {} /\ Strip(TrailingText(evs, i)) # <<>>}

\* the messages the events 1..k give rise to at the place of the event itself
RECURSIVE InPlace(_, _)
InPlace(evs, k) ==
    IF k = 0 THEN <<>>
    ELSE LET e == evs[k]
             text == event_text(e)
             merged == Strip(PartialsText(evs, e.inv, PrevFinal(evs, k, e.inv) + 1, k - 1)
                             \o text)
         IN InPlace(evs, k - 1) \o
            (IF text = <<>> THEN <<>>
             ELSE IF e.role = "user" THEN << Msg("user", text, "user") >>
             ELSE IF ~e.partial /\ merged # <<>> THEN << Msg("assistant", merged, e.inv) >>
             ELSE <<>>)

MsgsOf(msgs, i) == {k \in 1..Len(msgs) : msgs[k].src = i}

\* C8 (as stated): every invocation with a final text event yields exactly one
\* message, the partial texts of the invocation joined with the final text, and
\* every user text event yields a ("user", text) message.
C8_AsStated ==
    /\ ~history.raised
    /\ \A i \in InvsOf(events) :
         FinalIdx(events, i) # {} =>
           /\ Cardinality(MsgsOf(history.messages, i)) = 1
           /\ \A k \in MsgsOf(history.messages, i) :
                history.messages[k].text =
                  PartialsText(events, i, 1, Len(events))
                  \o event_text(events[Max(FinalIdx(events, i))])
    /\ SelectSeq(history.messages, LAMBDA m : m.role = "user")
         = SelectSeq(InPlace(events, Len(events)), LAMBDA m : m.role = "user")

\* C8 (amended): every non-partial text event of an invocation yields, at its
\* place in the order of the events, one assistant message: the texts of the
\* partial events of that invocation since its previous non-partial text event,
\* in arrival order, joined with the event's own text and stripped of surrounding
\* whitespace (no message when that is blank); every user text event yields a
\* ("user", text) message at its place.  These messages are the head of the
\* result; only the messages of the interrupted invocations follow them.
C8_MergePerFinalEvent ==
    /\ ~history.raised
    /\ LET n == Len(history.messages)
           t == Cardinality(Interrupted(events))
       IN /\ n >= t
          /\ SubSeq(history.messages, 1, n - t) = InPlace(events, Len(events))

\* C8 witness: two partial events and then the final event of one invocation,
\* merged into a single message
C8_Witness ==
    /\ Len(events) = 3
    /\ \A k \in 1..3 : ModelText(events, k, "i1") /\ events[k].parts # <<" ">>
    /\ events[1].partial /\ events[2].partial /\ ~events[3].partial
    /\ history.messages =
         << Msg("assistant", events[1].parts \o events[2].parts \o events[3].parts, "i1") >>

\* C9 (as stated): the partial events of an invocation that never receives a
\* final event are emitted as one assistant message whose text is the
\* concatenation of the partial texts.
C9_AsStated ==
    \A i \in InvsOf(events) :
        (PartialIdx(events, i) # {} /\ FinalIdx(events, i) = {}) =>
          /\ Cardinality(MsgsOf(history.messages, i)) = 1
          /\ \A k \in MsgsOf(history.messages, i) :
               history.messages[k] =
                 Msg("assistant", PartialsText(events, i, 1, Len(events)), i)

\* C9 (amended): the partial events of an invocation that no final text event of
\* that invocation follows are emitted, after all other messages, as one
\* assistant message whose text is the concatenation of those partial texts
\* stripped of surrounding whitespace; when that is blank no message is emitted.
C9_InterruptedPreserved ==
    /\ ~history.raised
    /\ LET msgs == history.messages
           n == Len(msgs)
           T == Interrupted(events)
           t == Cardinality(T)
       IN /\ n >= t
          /\ \A i \in T : \E k \in (n - t + 1)..n :
                 msgs[k] = Msg("assistant", Strip(TrailingText(events, i)), i)
          /\ \A k \in (n - t + 1)..n : msgs[k].src \in T

\* C9 witness: an invocation with two partial text events and no final event
C9_Witness ==
    /\ Len(events) >= 2
    /\ PartialIdx(events, "i1") = {1, 2}
    /\ FinalIdx(events, "i1") = {}
    /\ \E k \in 1..Len(history.messages) :
         history.messages[k] = Msg("assistant", events[1].parts \o events[2].parts, "i1")

\* the user event at index j of the events has text
UserText(evs, j) == evs[j].role = "user" /\ event_text(evs[j]) # <<>>
\* the place in msgs of the message of the user event at index j
UserMsgIdx(evs, msgs, j) ==
    LET u == Cardinality({m \in 1..j : UserText(evs, m)})
    IN CHOOSE k \in 1..Len(msgs) :
           /\ msgs[k].role = "user"
           /\ Cardinality({m \in 1..k : msgs[m].role = "user"}) = u
\* before the user event at index j, invocation i has partial text that no final
\* text event of i before j has merged
OpenBefore(evs, i, j) ==
    Strip(PartialsText(evs, i, PrevFinal(evs, j, i) + 1, j - 1)) # <<>>

\* C28: events_to_messages keeps the conversation order: an assistant message
\* built from partial events that precede a later user event is placed before
\* that user's message.
C28_AsStated ==
    ~history.raised =>
        \A j \in 1..Len(events) : \A i \in InvsOf(events) :
            (UserText(events, j) /\ OpenBefore(events, i, j)) =>
                Cardinality({k \in MsgsOf(history.messages, i) :
                                k < UserMsgIdx(events, history.messages, j)})
                  > Cardinality(MsgsOf(InPlace(events, j - 1), i))

\* --- build_committed_events_from_partials
IdIdx(evs, i) ==
 {k \in 1..Len(evs) : evs[k].inv = i}
IdsOf(evs) == {evs[k].inv : k \in {j \in 1..Len(evs) : Truthy(evs[j].inv)}}

RECURSIVE TextAt(_, _)
\* the texts of the events at the indices S, joined in input order
TextAt(evs, S) ==
    IF S = {} THEN <<>>
    ELSE event_text(evs[Min(S)]) \o TextAt(evs, S \ {Min(S)})

\* the indices of the group that starts at index k: all events of the same
\* invocation id, or the run of id-less events up to the next event with an id
GroupAt(evs, k) ==
    IF Truthy(evs[k].inv) THEN IdIdx(evs, evs[k].inv)
    ELSE {j \in k..Len(evs) : \A m \in k..j : ~Truthy(evs[m].inv)}

GroupStart(evs, k) ==
    IF Truthy(evs[k].inv) THEN k = Min(IdIdx(evs, evs[k].inv))
    ELSE k = 1 \/ Truthy(evs[k - 1].inv)

RECURSIVE ExpectedCommitted(_, _)
ExpectedCommitted(evs, k) ==
    IF k > Len(evs) THEN <<>>
    ELSE LET text == Strip(TextAt(evs, GroupAt(evs, k))) IN
         (IF GroupStart(evs, k) /\ text # <<>>
          THEN << [role |-> "model", parts |-> text, author |-> evs[k].author,
                   partial |-> FALSE,
                   inv |-> IF Truthy(evs[k].inv) THEN evs[k].inv ELSE ""] >>
          ELSE <<>>)
         \o ExpectedCommitted(evs, k + 1)

CommittedOf(i) == {k \in 1..Len(committed) : committed[k].inv = i}

\* C10 (as stated): one non-partial event per distinct invocation id that has
\* non-empty text, in order of first appearance, its text the concatenation in
\* input order of the texts of all input events carrying that id.
C10_AsStated ==
    /\ \A i \in IdsOf(carry) :
         TextAt(carry, IdIdx(carry, i)) # <<>> =>
           /\ Cardinality(CommittedOf(i)) = 1
           /\ \A k \in CommittedOf(i) :
                /\ ~committed[k].partial
                /\ committed[k].parts = TextAt(carry, IdIdx(carry, i))
    /\ \A i, j \in IdsOf(carry) :
         \A k \in CommittedOf(i), m \in CommittedOf(j) :
             k < m => Min(IdIdx(carry, i)) < Min(IdIdx(carry, j))

\* C10 (amended): one non-partial event per distinct invocation id whose joined
\* text is not blank, in order of the invocation's first appearance, its text
\* the concatenation in input order of the texts of all input events carrying
\* that id, stripped of surrounding whitespace, also when invocations are
\* interleaved; events without an invocation id are merged the same way per run
\* of such events between two events that have an id.
C10_MergeByInvocation == committed = ExpectedCommitted(carry, 1)

\* C10 witness: two invocations interleaved, each merged into its own event
C10_Witness ==
    /\ Len(carry) = 3
    /\ carry[1].inv = "i1" /\ carry[2].inv = "i2" /\ carry[3].inv = "i1"
    /\ \A k \in 1..3 : carry[k].parts \in { <<"a">>, <<"b">> }
    /\ Len(committed) = 2
    /\ committed[1].inv = "i1" /\ committed[1].parts = carry[1].parts \o carry[3].parts
    /\ committed[2].inv = "i2" /\ committed[2].parts = carry[2].parts

\* --- the loop agent
LoopMode == agent.kind = "LoopAgent"
Escalated(k) == la_trace[k].called \cap MentorTools # {}

\* C1: in agent mode every iteration runs remip_agent first and mentor_agent
\* second, no sub-agent runs after the mentor signalled exit, never more than
\* max_iterations iterations run, and the loop is over only when the mentor
\* signalled exit or max_iterations iterations have run.
C1_LoopOrderAndCap ==
    LoopMode =>
      /\ \A k \in 1..Len(la_trace) :
           /\ la_trace[k].agent = IF k % 2 = 1 THEN "remip_agent" ELSE "mentor_agent"
           /\ la_trace[k].iteration = (k + 1) \div 2
           /\ la_trace[k].iteration <= agent.max_iterations
           /\ k < Len(la_trace) => ~Escalated(k)
      /\ la_pc = "done" =>
           /\ la_trace # <<>>
           /\ la_trace[Len(la_trace)].agent = "mentor_agent"
           /\ \/ Escalated(Len(la_trace))
              \/ la_trace[Len(la_trace)].iteration = agent.max_iterations

\* C1 witness: the loop ran max_iterations full iterations without an exit signal
C1_Witness ==
    /\ LoopMode /\ la_pc = "done"
    /\ agent.max_iterations = 2
    /\ Len(la_trace) = 4
    /\ ~Escalated(4)

\* C7: once the mentor has called ask, the sub-agent run in which it did so is
\* the last run of the invocation, as it is for exit_loop.
C7_AskEndsLoop ==
    LoopMode =>
      /\ \A k \in 1..Len(la_trace) :
           "ask" \in la_trace[k].called => k = Len(la_trace)
      /\ (la_pc \in {"sub_start", "done"} /\ la_trace # <<>>
          /\ "ask" \in la_trace[Len(la_trace)].called) => la_pc = "done"

\* C7 witness: the loop ended after the mentor's ask, before the iteration cap
C7_Witness ==
    /\ LoopMode /\ la_pc = "done"
    /\ la_trace # <<>>
    /\ la_trace[Len(la_trace)].called = {"ask"}
    /\ la_trace[Len(la_trace)].iteration < agent.max_iterations

\* --- AgentService
CreatedBy(u) == SelectSeq(svc_log, LAMBDA c : c.user = u)
Created(u, sid) == \E k \in 1..Len(svc_log) : svc_log[k] = [user |-> u, sid |-> sid]

\* C6: listing a user's sessions returns exactly the ids that user created, and
\* looking up a session under another user's id, or a session id that does not
\* exist, raises KeyError; the user's own session is returned.
C6_SessionsPerUser ==
    /\ \A u \in Users :
         /\ Len(list_talk_sessions(u)) = Len(CreatedBy(u))
         /\ \A k \in 1..Len(CreatedBy(u)) : list_talk_sessions(u)[k] = CreatedBy(u)[k].sid
    /\ \A u \in Users, sid \in 1..MaxSessions + 1 :
         IF Created(u, sid)
         THEN /\ get_talk_session(u, sid).raised = ""
              /\ get_talk_session(u, sid).value[1].id = sid
              /\ get_talk_session(u, sid).value[1].user_id = u
         ELSE get_talk_session(u, sid).raised = "KeyError"
    /\ api_result.op = "get_talk_session" =>
         (api_result.raised = "KeyError" <=> ~Created(api_result.user, api_result.sid))
    /\ api_result.op = "list_talk_sessions" =>
         \A k \in 1..Len(api_result.value) : Created(api_result.user, api_result.value[k])

\* C6 witness: a look-up of another user's session has raised KeyError
C6_Witness ==
    /\ api_result.op = "get_talk_session"
    /\ api_result.raised = "KeyError"
    /\ \E u \in Users \ {api_result.user} : Created(u, api_result.sid)

\* C5 (as stated): after add_message for an existing session the message is on
\* the session's message queue and is_task_running(session_id) is True.
C5_AsStated ==
    (api_result.op = "add_message" /\ Created(api_result.user, api_result.sid)) =>
      /\ api_result.raised = ""
      /\ session_message_queues[api_result.sid] # <<>>
      /\ is_task_running(api_result.sid)

\* C3 (as stated): when a message is put while the response to the previous one
\* is streaming, none of the events of that response that were not yet put
\* appears in the output of any stream call, and the next stream call yields
\* exactly the events of the new message, in order.
C3_AsStated ==
    \A sid \in DOMAIN put_log : \A j \in 1..Len(put_log[sid]) :
        LET r == put_log[sid][j] IN
        r.during # 0 =>
          /\ \A q \in 1..Len(streams) : \A i \in 1..Len(streams[q].out) :
                 streams[q].sid = sid =>
                   ~(streams[q].out[i].msg = r.during /\ streams[q].out[i].k > r.put)
          /\ \A q \in 1..Len(streams) :
                 (streams[q].sid = sid /\ q = r.streams + 1 /\ streams[q].done) =>
                   /\ streams[q].out # <<>>
                   /\ \A i \in 1..Len(streams[q].out) :
                          streams[q].out[i] = [msg |-> j, k |-> i]


\* ---------------------------------------------------- AsyncIteratorBridge
\* the items of the iterator that the factory of run r created
BridgeItems(r) ==
    IF br_prod[r].fac = r THEN [k \in 1..br_iter[r].len |-> [it |-> r, k |-> k]]
    ELSE <<>>
IsPrefix(s, t) == Len(s) <= Len(t) /\ \A i \in 1..Len(s) : s[i] = t[i]
\* run r was not stopped and its factory and iterator did not raise
Undisturbed(r) == ~br_gen[r].stopped /\ ~br_prod[r].failed

\* C4: a run() call whose iterator is not stopped and does not fail yields the
\* items of its iterator, each once and in order, and has yielded all of them
\* when it ends.
C4_AsStated ==
    \A r \in Runs :
        Undisturbed(r) =>
            /\ IsPrefix(br_gen[r].out, BridgeItems(r))
            /\ br_gen[r].pc = "ended" => br_gen[r].out = BridgeItems(r)


\* ------------------------------------------------------------ StreamWorker
ContentKinds ==
    {"chunk", "final_chunk", "thought", "final_thought", "function_call",
     "function_response"}
KindsOf(s) == [i \in 1..Len(sw_out_q[s]) |-> sw_out_q[s][i].kind]
Terminals(s) == SelectSeq(KindsOf(s), LAMBDA k : k \in {"done", "error", "interrupted"})
\* no content item of stream s was put for an event it received after
\* start_stream had been called for a newer stream
NoLateContent(s) ==
    \A i \in 1..Len(sw_out_q[s]) :
        sw_out_q[s][i].late => sw_out_q[s][i].kind \notin ContentKinds

\* C2 as stated: once start_stream was called for a new prompt while stream s
\* was active, stream s puts no content item for an event it receives afterwards
\* and it finishes with 'interrupted', not with 'done'.
C2_AsStated ==
    \A s \in SwStreams :
        sw_task[s].superseded = "iter" =>
            /\ NoLateContent(s)
            /\ TaskDone(s) => Terminals(s) = << "interrupted" >>

\* C2: once start_stream was called for a new prompt while stream s was active,
\* stream s puts no content item for an event it receives afterwards; if it
\* receives such an event it finishes with 'interrupted' and never puts 'done'
\* or 'error', and if it receives none it finishes with 'done' or 'error'.
C2_NewInputInterrupts ==
    \A s \in SwStreams :
        sw_task[s].superseded # "" =>
            /\ NoLateContent(s)
            /\ sw_task[s].late > 0 =>
                   /\ Terminals(s) \in {<< >>, << "interrupted" >>}
                   /\ TaskDone(s) => Terminals(s) = << "interrupted" >>
            /\ sw_task[s].late = 0 /\ TaskDone(s) =>
                   Terminals(s) \in {<< "done" >>, << "error" >>}

\* a stream that had put a chunk was superseded, received another event and
\* finished
C2_Witness ==
    \E s \in SwStreams :
        /\ sw_task[s].superseded = "iter"
        /\ TaskDone(s)
        /\ sw_task[s].late > 0
        /\ \E i \in 1..Len(sw_out_q[s]) : sw_out_q[s][i].kind = "chunk"
        /\ Terminals(s) = << "interrupted" >>


\* ------------------------------------------------------- the tool callbacks
\* the record list is that of the calls: record i has the agent and the tool of
\* call i and its success flag
RecordsOf(list, calls) ==
    /\ Len(list) = Len(calls)
    /\ \A i \in 1..Len(list) :
          /\ list[i].agent = calls[i].agent
          /\ list[i].tool = calls[i].tool
          /\ list[i].success = ~calls[i].response.isError

\* C11: tools_used is empty when a run of remip_agent begins, whatever it held,
\* and while the mentor runs it holds exactly the records of the calls the
\* worker made in the same iteration, in call order.
C11_TrackOfCurrentIteration ==
    (la_pc = "sub_running" /\ la_trace # << >>) =>
        LET n == Len(la_trace) IN
        /\ Current = "remip_agent" => RecordsOf(tools_used, la_trace[n].calls)
        /\ Current = "mentor_agent" =>
              /\ n > 1
              /\ la_trace[n - 1].agent = "remip_agent"
              /\ la_trace[n - 1].iteration = la_trace[n].iteration
              /\ RecordsOf(tools_used, la_trace[n - 1].calls)

\* C11 witness: the mentor of the second iteration sees the one call of that
\* iteration, the worker having called another tool in the first iteration
C11_Witness ==
    /\ la_pc = "sub_running" /\ Len(la_trace) = 4
    /\ Current = "mentor_agent"
    /\ la_trace[1].called = {"define_model"}
    /\ la_trace[3].called = {"solve_model"}
    /\ Len(tools_used) = 1 /\ tools_used[1].tool = "solve_model"

\* C12: a call of track_tool_calling leaves the state with a list that is the
\* list it had (none counting as empty) followed by exactly one record, which
\* has the agent name and the tool name of the call, its argument names, and a
\* success flag.
C12_AppendsOneRecord ==
    [][Len(tt_log') = Len(tt_log) + 1 =>
          LET old == IF tt_state.present THEN tt_state.list ELSE << >>
              new == tt_state'.list
              call == tt_log'[Len(tt_log')]
          IN /\ tt_state'.present
             /\ Len(new) = Len(old) + 1
             /\ SubSeq(new, 1, Len(old)) = old
             /\ new[Len(new)].agent = call.agent
             /\ new[Len(new)].tool = call.tool
             /\ new[Len(new)].success \in BOOLEAN
             /\ Len(new[Len(new)].args) = Len(call.args)
             /\ \A j \in 1..Len(call.args) : new[Len(new)].args[j].k = call.args[j].k
      ]_vars

\* C12 witness: two calls were tracked on a state that had no list, the second
\* record differing from the first
C12_Witness ==
    /\ Len(tt_log) = 2
    /\ tt_log[1].tool # tt_log[2].tool
    /\ tt_log[1].app # tt_log[2].app
    /\ tt_state.present /\ Len(tt_state.list) = 2
    /\ tt_state.list[1].tool = tt_log[1].tool
    /\ tt_state.list[2].tool = tt_log[2].tool

\* C13: an argument whose string form has more than 128 characters is recorded
\* as its first 128 characters followed by "..." (131 characters), and one of
\* 128 characters or fewer is recorded as its string form.
C13_TruncatesLongArgs ==
    (tt_state.present /\ Len(tt_state.list) = Len(tt_log)) =>
        \A i \in 1..Len(tt_log) : \A j \in 1..Len(tt_log[i].args) :
            LET value == StrOf(tt_log[i].args[j].v)
                recorded == tt_state.list[i].args[j].v
            IN IF Len(value) > 128
               THEN /\ Len(recorded) = 131
                    /\ \A c \in 1..128 : recorded[c] = value[c]
                    /\ \A c \in 129..131 : recorded[c] = "."
               ELSE recorded = value

\* C13 witness: one call recorded an argument of 129 characters cut to 131 and
\* an argument of 128 characters as it was
C13_Witness ==
    /\ Len(tt_log) = 1 /\ tt_state.present /\ Len(tt_state.list) = 1
    /\ Len(tt_log[1].args) = 2
    /\ Len(StrOf(tt_log[1].args[1].v)) = 129
    /\ Len(StrOf(tt_log[1].args[2].v)) = 128
    /\ Len(tt_state.list[1].args[1].v) = 131
    /\ tt_state.list[1].args[2].v = StrOf(tt_log[1].args[2].v)


\* the text has the string c in it
Has(text, c) == \E i \in DOMAIN text : text[i] = c

\* the parts of the event given to process_event
PeGiven == IF pe_event.content.none THEN << >> ELSE pe_event.content.parts
ThoughtTexts == {PeGiven[i].text : i \in {j \in DOMAIN PeGiven : PeGiven[j].thought}}
PlainTexts ==
    {PeGiven[i].text : i \in {j \in DOMAIN PeGiven : ~PeGiven[j].thought}} \ {<< >>}
ShownTools ==
    {PeGiven[i].function_call : i \in DOMAIN PeGiven}
    \cup {PeGiven[i].function_response : i \in DOMAIN PeGiven}

\* C14: process_event returns the event's author; the text of non-thought
\* parts is in the response and not in the thoughts, the text of thought parts
\* is in the thoughts and not in the response; an output with nothing in it
\* is None; an event with empty or missing content gives (author, None, None).
C14_OutputsApart ==
    pe_event.author # "" =>
        /\ pe_result.author = pe_event.author
        /\ ~Has(pe_result.response.s, "t")
        /\ \A i \in DOMAIN pe_result.thoughts.s :
              pe_result.thoughts.s[i] \in {"t", " ", "\n\n"}
        /\ (\E tx \in ThoughtTexts : Has(tx, "t")) => Has(pe_result.thoughts.s, "t")
        /\ (\E tx \in PlainTexts : Has(tx, "x")) => Has(pe_result.response.s, "x")
        /\ pe_result.response.none <=> pe_result.response.s = << >>
        /\ pe_result.thoughts.none <=> pe_result.thoughts.s = << >>
        /\ pe_result.response.none <=>
              (PlainTexts = {} /\ ShownTools \subseteq TOOL_SKIP_NAMES \cup {""})
        /\ pe_result.thoughts.none <=> \A tx \in ThoughtTexts : Strip(tx) = << >>
        /\ PeGiven = << >> => pe_result.response.none /\ pe_result.thoughts.none

\* C14 witness: an event with a thought part, a text part and a tool call was
\* processed, and both outputs have something in them
C14_Witness ==
    /\ pe_event.author = "remip_agent"
    /\ Len(PeGiven) = 3
    /\ PeGiven[1].thought /\ PeGiven[1].text = <<"t">>
    /\ PeGiven[2].function_call = "my_tool"
    /\ PeGiven[3].text = <<"x">> /\ ~PeGiven[3].thought
    /\ ~pe_result.response.none /\ ~pe_result.thoughts.none

\* the texts of the thought parts one after the other, nothing between them
RECURSIVE PlainThoughts(_)
PlainThoughts(parts) ==
    IF parts = << >> THEN << >>
    ELSE (IF Head(parts).thought THEN Head(parts).text ELSE << >>)
         \o PlainThoughts(Tail(parts))

\* the texts and tool blocks of the other parts, each where its part stands
RECURSIVE InPartOrder(_)
InPartOrder(parts) ==
    IF parts = << >> THEN << >>
    ELSE LET p == Head(parts)
             shown == IF p.thought THEN << >>
                      ELSE IF p.function_call # ""
                      THEN IF p.function_call \in TOOL_SKIP_NAMES THEN << >>
                           ELSE render_tool_block("call", p.function_call)
                      ELSE IF p.function_response # ""
                      THEN IF p.function_response \in TOOL_SKIP_NAMES THEN << >>
                           ELSE render_tool_block("response", p.function_response)
                      ELSE p.text
         IN shown \o InPartOrder(Tail(parts))

\* C15 as stated: the thoughts are the plain concatenation of the thought
\* parts' texts, and the response is the texts and tool blocks in the order of
\* their parts.
C15_AsStated ==
    pe_event.author # "" =>
        /\ pe_result.thoughts.s = PlainThoughts(PeGiven)
        /\ pe_result.response.s = InPartOrder(PeGiven)

\* C16: an agent built with is_agent_mode False is the worker alone, an
\* LlmAgent named remip_agent; a run of it has one sub-agent run, the
\* worker's, calls no tool of the mentor and counts no loop iteration.
C16_WorkerAlone ==
    la_agent_mode = "off" =>
        /\ agent.kind = "LlmAgent" /\ agent.name = "remip_agent"
        /\ agent.sub_agents = << >>
        /\ Len(la_trace) <= 1
        /\ \A k \in 1..Len(la_trace) :
              /\ la_trace[k].agent = "remip_agent"
              /\ la_trace[k].iteration = 1
              /\ la_trace[k].called \cap MentorTools = {}
        /\ times_looped = 0
        /\ la_pc = "done" => Len(la_trace) = 1
        /\ ~(la_pc = "sub_start" /\ la_trace # << >>)

\* C16 witness: a run of the agent built without agent mode is over, and the
\* worker called a tool in it
C16_Witness ==
    /\ la_agent_mode = "off" /\ la_pc = "done"
    /\ Len(la_trace) = 1
    /\ la_trace[1].calls # << >>

\* C17 as stated: with no handoff timeout, a stream that has put its
\* 'starting' and 'reset' items and is iterating the runner has no earlier
\* stream whose task is unfinished.
C17_AsStated ==
    sw_handoff_timeout = "none" =>
        \A s \in SwStreams : \A p \in SwStreams :
            (p < s /\ sw_task[s].pc = "iter") => TaskDone(p)

\* the places of the terminal items among the items of stream s
TerminalAt(s) ==
    {i \in 1..Len(sw_out_q[s]) : sw_out_q[s][i].kind \in {"done", "error", "interrupted"}}

\* C18: a stream puts at most one terminal item, 'done', 'error' or
\* 'interrupted', and no item after it; a stream whose task has finished has
\* put exactly one, 'interrupted' when it was interrupted and 'done' or
\* 'error' when it was not.
C18_OneTerminalItem ==
    \A s \in SwStreams :
        /\ Cardinality(TerminalAt(s)) <= 1
        /\ TerminalAt(s) \subseteq {Len(sw_out_q[s])}
        /\ TaskDone(s) =>
              /\ Cardinality(TerminalAt(s)) = 1
              /\ sw_task[s].interrupted <=> Terminals(s) = << "interrupted" >>
        /\ sw_task[s].pc \in {"none", "created", "await", "iter"} => TerminalAt(s) = {}

\* C18 witness: one stream was interrupted and the one after it raised, and
\* each has put its one terminal item
C18_Witness ==
    /\ TaskDone(1) /\ TaskDone(2)
    /\ Terminals(1) = << "interrupted" >>
    /\ Terminals(2) = << "error" >>
    /\ Len(sw_out_q[1]) > 4

\* stream s has put an item of that kind
HasPut(s, kind) == \E i \in 1..Len(sw_out_q[s]) : sw_out_q[s][i].kind = kind

\* start_stream was called for stream s while the stream before it was active
StartedOverActive(s) ==
    /\ s > 1 /\ sw_current_stream_id >= s
    /\ sw_task[s - 1].superseded # ""

\* C19: a stream started while another stream was active eventually puts its
\* 'reset' item and eventually puts a terminal item, when the loop runs and
\* every generator goes on to its next event or its end.
C19_NewStreamBeginsAndEnds ==
    \A s \in SwStreams :
        StartedOverActive(s) ~> (HasPut(s, "reset") /\ TerminalAt(s) # {})

\* C19 witness: stream 2 was started while stream 1 was iterating the runner
\* and had to wait for it; it has put its reset item and its terminal item
C19_Witness ==
    /\ StartedOverActive(2)
    /\ sw_task[1].superseded = "iter"
    /\ HasPut(2, "handover_wait") \/ HasPut(2, "status")
    /\ \E i \in 1..Len(sw_out_q[2]) : sw_out_q[2][i].state = "handover_wait"
    /\ HasPut(2, "reset") /\ TerminalAt(2) # {}

\* the events appended to the session's history for the invocation of stream s
AppendedFor(s) == SelectSeq(sw_appended, LAMBDA ev : ev.inv = InvOf(s))

\* the events of evs that are not final responses
NonFinal(evs) == SelectSeq(evs, LAMBDA ev : ~is_final_response(ev))

\* the events of evs that came after the last final response among them
RECURSIVE SinceLastFinal(_)
SinceLastFinal(evs) ==
    IF evs = << >> \/ is_final_response(evs[Len(evs)]) THEN << >>
    ELSE Append(SinceLastFinal(SubSeq(evs, 1, Len(evs) - 1)), evs[Len(evs)])

\* one non-partial event with the joined texts of evs, none when they are blank
MergedAs(s, evs) ==
    IF Strip(JoinTexts(evs)) = << >> THEN << >>
    ELSE << [role |-> "model", parts |-> Strip(JoinTexts(evs)), author |-> "remip_agent",
             partial |-> FALSE, inv |-> InvOf(s)] >>

HadFinal(s) == \E i \in 1..Len(sw_task[s].passed) : is_final_response(sw_task[s].passed[i])

\* C20 as stated: a stream that ended by interruption or error without having
\* had a final response has appended the texts of its non-final events as one
\* merged non-partial event, and a stream that had the final response of its
\* invocation has appended nothing for it.
C20_AsStated ==
    \A s \in SwStreams :
        TaskDone(s) =>
            /\ (~HadFinal(s) /\ Terminals(s) # << "done" >>) =>
                   AppendedFor(s) = MergedAs(s, NonFinal(sw_task[s].passed))
            /\ HadFinal(s) => AppendedFor(s) = << >>

\* C20: a stream appends nothing before it ends; when it ends, however it
\* ends, it has appended the texts of the non-final events that passed its
\* interruption test since the last final response it had, as one merged
\* non-partial event with the blanks at both ends removed, and nothing when
\* that text is empty.
C20_CarryCommitted ==
    \A s \in SwStreams :
        /\ TaskDone(s) => AppendedFor(s) = MergedAs(s, SinceLastFinal(sw_task[s].passed))
        /\ ~TaskDone(s) => AppendedFor(s) = << >>

\* C20 witness: a stream had a partial text and a thought and ended by an
\* error; their texts were appended as one non-partial event
C20_Witness ==
    \E s \in SwStreams :
        /\ TaskDone(s) /\ Terminals(s) = << "error" >>
        /\ Len(sw_task[s].passed) = 2
        /\ ~is_final_response(sw_task[s].passed[1])
        /\ sw_task[s].passed[1].kind = "text" /\ sw_task[s].passed[2].kind = "thought"
        /\ Len(AppendedFor(s)) = 1
        /\ AppendedFor(s)[1].parts = <<"a", "b">>
        /\ ~AppendedFor(s)[1].partial

\* ------------------------------------------------------------- the page
\* what the page shows of the stream
Shown(state) ==
    <<state.live_text, state.thought_text, state.tool_markdown, state.streaming_active,
      state.loop_status>>

\* the step takes from out_q an item of a stream older than the one
\* trigger_prompt last made the active one
DrainsOlder ==
    /\ ui_drained' = ui_drained + 1
    /\ QueueItem(ui_drained + 1).id < ui_triggered

\* C21 as stated: once trigger_prompt has made a newer stream the active one,
\* no item of an older stream changes live_text, thought_text, tool_markdown,
\* streaming_active or loop_status.
C21_AsStated == [][DrainsOlder => Shown(ss') = Shown(ss)]_vars

\* C22: after a reset, when every final_chunk has the text of the chunks
\* handled since the final_chunk before it, live_text is the final_chunk
\* payloads one after the other, each once, followed by the chunks handled
\* since the last final_chunk.
C22_FinalTextOnce == ss.live_text = ui_finals \o ui_since

\* C22 witness: two final chunks were handled, the second after further
\* chunks, and live_text is the two final texts
C22_Witness ==
    /\ ui_since = << >>
    /\ ui_finals = <<"a", "b", "a", "b">>
    /\ ss.live_text = ui_finals


\* the sentinel that ends the loop of run(): thread r leaves its finally block
\* having put the sentinel on the queue of its own run
OwnSentinel(r) ==
    (br_prod[r].pc = "finally" /\ br_prod'[r].pc = "dead") =>
        /\ br_q = r
        /\ br_queues'[r] = Append(br_queues[r], BrSentinel)

\* C23: run() always ends: whatever ends the producer (its iterator exhausted,
\* its factory or iterator raising, a stop request, a new run on the bridge),
\* its last put is the sentinel, on the queue that the consumer of its run reads.
C23_AsStated == [][\A r \in Runs : OwnSentinel(r)]_vars

\* C24: each queue has a single producer: every item a run() call yields comes
\* from the iterator that the factory of this call created, never from the
\* thread of an earlier run.
C24_AsStated ==
    \A g \in Runs :
        \A i \in 1..Len(br_gen[g].out) :
            /\ br_gen[g].out[i].it = g
            /\ br_prod[g].fac = g

\* ----------------------------------------------------------- AgentService
\* stream k is the q-th stream_new_responses call of its session
StreamIndex(k) ==
    Cardinality({j \in 1..k : streams[j].sid = streams[k].sid})

\* C25: for each message the session task has processed to completion, the
\* stream_new_responses call that reads its response yields exactly the events
\* the runner yielded for it, in order, and then ends.
C25_AsStated ==
    \A k \in 1..Len(streams) :
        LET sid == streams[k].sid
            q == StreamIndex(k)
        IN q <= Len(task[sid].lens) =>
               /\ \A i \in 1..Len(streams[k].out) :
                      streams[k].out[i] = [msg |-> q, k |-> i]
               /\ Len(streams[k].out) <= task[sid].lens[q]
               /\ streams[k].done => Len(streams[k].out) = task[sid].lens[q]

\* the session task of sid ends in this step
TaskEnding(sid) ==
    /\ task[sid].pc \in {"waiting", "streaming"}
    /\ task'[sid].pc \in {"ended", "raised"}

\* C26: a session task that ends by cancellation or by an error, at whatever
\* point, leaves the running flag False and a SENTINEL as the last item of the
\* session's output queue.
C26_AsStated ==
    [][\A sid \in DOMAIN task :
           TaskEnding(sid) =>
               /\ sid \in DOMAIN task_is_running' => ~task_is_running'[sid]
               /\ output_queues'[sid] # <<>>
               /\ output_queues'[sid][Len(output_queues'[sid])] = SENTINEL]_vars

SpawnedFor(port) == {p \in 1..Len(hs_procs) : hs_procs[p].port = port}

\* C29: over any sequence of calls in one process, a failed start included, at
\* most one server process is spawned for a port, a call returns the port only
\* when the port accepts connections, and a server process is terminated only
\* by the exit handler.
C29_AsStated ==
    /\ \A port \in HsPorts : Cardinality(SpawnedFor(port)) <= 1
    /\ (hs_result.called /\ hs_result.raised = "") =>
           hs_result.value = hs_result.port /\ hs_result.open
    /\ (\E p \in 1..Len(hs_procs) : hs_procs[p].state = "terminated") => hs_exiting
============================================================================
